---- MODULE Spec2Model ----
(***************************************************************************)
(* Incremental grouping-and-regression engine of rdm4lab (apps G3 and G1). *)
(*                                                                         *)
(* Python values are represented as follows.                               *)
(*   None                      the empty tuple <<>>                        *)
(*   a formatted quantity      <<magnitude, unit>>  (f"{q:~}")             *)
(*   a formatted rate          <<numerator, denominator, unit>>            *)
(*   a plot series             <<xs, ys>>                                  *)
(*   an error message          the tuple of its words and full stops       *)
(*   a dict key that is absent None (every read goes through dict.get)     *)
(* Floating point magnitudes are integers; a quotient is kept as the pair  *)
(* of its numerator and denominator or taken with integer division.        *)
(***************************************************************************)
EXTENDS Integers, Sequences, FiniteSets, TLC

VARIABLES
    g3data,         \* G3Data rows, by data point id
    rate_dicts,     \* G3Results.rate_dicts
    ea_dicts,       \* G3Results.ea_dicts
    ro_dicts,       \* G3Results.ro_dicts
    g1data,         \* G1Data rows, by data point id
    g1_ea_dicts,    \* G1Results.ea_dicts
    ro_base_dicts,  \* G1Results.ro_base_dicts
    ro_ester_dicts, \* G1Results.ro_ester_dicts
    last,           \* the event handled last: its kind, data point, outcome,
                    \* the proc_data its handler passed on, whether it ran
                    \* the derivation, and whether the data point was a
                    \* member of a group when it began
    nevents,        \* number of events handled so far
    call,           \* the G1 save being handled one step at a time: the
                    \* frames of G1Data_post_save on the stack, the instance
                    \* they share, and what the save has done so far
    seed,           \* which initial store the behaviour started from
    inflight,       \* requests whose handler has not returned yet, and
                    \* those handled concurrently before (SpecRace)
    trial,          \* one call of calc_init_slope: its arguments and what
                    \* it returned (SpecSlope)
    simul_dicts,    \* G3SimulParams.simul_dicts
    simul_params    \* G3SimulParams.simul_params

g3vars == <<g3data, rate_dicts, ea_dicts, ro_dicts>>
g1vars == <<g1data, g1_ea_dicts, ro_base_dicts, ro_ester_dicts>>
vars == <<g3data, rate_dicts, ea_dicts, ro_dicts,
          g1data, g1_ea_dicts, ro_base_dicts, ro_ester_dicts, last, nevents,
          seed, inflight, trial, simul_dicts, simul_params, call>>
simulvars == <<simul_dicts, simul_params>>

\* Largest data point id (the add views hand out max id + 1).
MaxObs == 9

Ids == 1..MaxObs

(***************************************************************************)
(* Values                                                                  *)
(***************************************************************************)
None == <<>>

\* f"{value:~}": the magnitude followed by the unit symbol.
Fmt(v, u) == <<v, u>>

\* Q_(x).magnitude of a formatted quantity.
Q_(x) == x[1]

Range(s) == {s[i] : i \in DOMAIN s}

Contains(s, x) == \E i \in DOMAIN s : s[i] = x

\* list.index(x): the first position holding x.
IndexOf(s, x) == CHOOSE i \in DOMAIN s : s[i] = x /\ \A j \in 1..(i - 1) : s[j] # x

\* list.pop(pos)
Pop(s, pos) == SubSeq(s, 1, pos - 1) \o SubSeq(s, pos + 1, Len(s))

SetMax(S) == CHOOSE m \in S : \A x \in S : x <= m

SetMin(S) == CHOOSE m \in S : \A x \in S : m <= x

\* Variant of MaxId: the smallest id.
MinId(dicts) == IF dicts = <<>> THEN 0 ELSE SetMin({dicts[i].id : i \in DOMAIN dicts})

\* max(d["id"] for d in dicts) if dicts else 0
MaxId(dicts) == IF dicts = <<>> THEN 0 ELSE SetMax({dicts[i].id : i \in DOMAIN dicts})

\* The ids held by the ref_ids of a list of dicts.
Members(dicts) == UNION {Range(dicts[i].ref_ids) : i \in DOMAIN dicts}

\* len(set(column))
Unique(col) == Cardinality(Range(col))

Mags(col) == [i \in DOMAIN col |-> Q_(col[i])]

RECURSIVE SumProd(_, _)
SumProd(x, y) ==
    IF x = <<>> THEN 0 ELSE Head(x) * Head(y) + SumProd(Tail(x), Tail(y))

\* any(list of booleans)
AnyTrue(bs) == \E i \in DOMAIN bs : bs[i] = TRUE

(***************************************************************************)
(* G3: physical derivation (G3/analysis.py)                                *)
(***************************************************************************)
\* Gas constant, rounded to an integer.
R_gas == 8

\* Conversions are fractions of ConvOne (1.0).
ConvOne == 100

\* The Antoine equation 10 ** (A - B / (T_bath + C)) * 1e5 is strictly
\* increasing in T_bath; it is tabulated here by an increasing integer map.
calc_p_sat(T_bath) == 100 * T_bath

\* tau = M_catalyst / (p / (R * T_bath) * V_flow); None when the division
\* fails (a zero molar flow).
calc_tau(M_catalyst, V_flow, p, T_bath) ==
    IF p * V_flow = 0 \/ R_gas * T_bath = 0
    THEN None
    ELSE <<(M_catalyst * R_gas * T_bath) \div (p * V_flow)>>

\* min(A_product / A_reactant, 1.0); None when the division fails.
calc_conv(A_reactant, A_product) ==
    IF A_reactant = 0
    THEN None
    ELSE LET c == (ConvOne * A_product) \div A_reactant
         IN  <<IF c < ConvOne THEN c ELSE ConvOne>>

G3_calc_proc_data(raw_data) ==
    LET p    == calc_p_sat(Q_(raw_data.T_bath))
        tau  == calc_tau(Q_(raw_data.M_catalyst), Q_(raw_data.V_flow), p,
                         Q_(raw_data.T_bath))
        conv == calc_conv(Q_(raw_data.A_reactant), Q_(raw_data.A_product))
    IN  [id           |-> raw_data.id,
         tau          |-> IF tau = None THEN None ELSE Fmt(tau[1], "kg*s/mol"),
         p            |-> Fmt(p, "Pa"),
         conversion   |-> IF conv = None THEN None ELSE Fmt(conv[1], ""),
         T_reactor    |-> Fmt(Q_(raw_data.T_reactor), "K"),
         is_active    |-> raw_data.is_active,
         is_simulated |-> raw_data.is_simulated]

\* prepare_for_db_storage plus the id and flags the views add.
G3_prepare_for_db_storage(form, id, is_active, is_simulated) ==
    [id           |-> id,
     T_bath       |-> Fmt(form.T_bath, "K"),
     T_reactor    |-> Fmt(form.T_reactor, "K"),
     M_catalyst   |-> Fmt(form.M_catalyst, "kg"),
     V_flow       |-> Fmt(form.V_flow, "m**3/s"),
     A_reactant   |-> Fmt(form.A_reactant, ""),
     A_product    |-> Fmt(form.A_product, ""),
     is_active    |-> is_active,
     is_simulated |-> is_simulated]

(***************************************************************************)
(* G3: rate groups (G3/utils.py upd_rate_dicts, upd_rates)                 *)
(***************************************************************************)
\* Variant of G3_rate_remove: the tau column loses its first entry.
G3_rate_remove_shifted(d, ref_id) ==
    IF Contains(d.ref_ids, ref_id)
    THEN LET ref_id_pos == IndexOf(d.ref_ids, ref_id)
         IN  [d EXCEPT !.ref_ids      = Pop(@, ref_id_pos),
                       !.tau          = Pop(@, 1),
                       !.conversion   = Pop(@, ref_id_pos),
                       !.is_active    = Pop(@, ref_id_pos),
                       !.is_simulated = Pop(@, ref_id_pos),
                       !.error        = None,
                       !.rate         = None,
                       !.r_squared    = None,
                       !.plotdata     = None,
                       !.fitdata      = None,
                       !.simuldata    = None,
                       !.updated      = TRUE]
    ELSE d

\* Variant of G3_rate_remove: the fit is cleared and the dict marked
\* updated whether or not it holds ref_id.
G3_rate_remove_marking(d, ref_id) ==
    IF Contains(d.ref_ids, ref_id)
    THEN LET ref_id_pos == IndexOf(d.ref_ids, ref_id)
         IN  [d EXCEPT !.ref_ids      = Pop(@, ref_id_pos),
                       !.tau          = Pop(@, ref_id_pos),
                       !.conversion   = Pop(@, ref_id_pos),
                       !.is_active    = Pop(@, ref_id_pos),
                       !.is_simulated = Pop(@, ref_id_pos),
                       !.error        = None,
                       !.rate         = None,
                       !.r_squared    = None,
                       !.plotdata     = None,
                       !.fitdata      = None,
                       !.simuldata    = None,
                       !.updated      = TRUE]
    ELSE [d EXCEPT !.rate = None, !.updated = TRUE]

\* Variant of G3_rate_remove: only the lists lose their entry; the values
\* calculated earlier stay.
G3_rate_remove_keeping(d, ref_id) ==
    IF Contains(d.ref_ids, ref_id)
    THEN LET ref_id_pos == IndexOf(d.ref_ids, ref_id)
         IN  [d EXCEPT !.ref_ids      = Pop(@, ref_id_pos),
                       !.tau          = Pop(@, ref_id_pos),
                       !.conversion   = Pop(@, ref_id_pos),
                       !.is_active    = Pop(@, ref_id_pos),
                       !.is_simulated = Pop(@, ref_id_pos),
                       !.updated      = TRUE]
    ELSE d

\* The removal pass on one rate dict: lists lose the entry at the position
\* of ref_id, every other value but id, p, T_reactor becomes None.
G3_rate_remove(d, ref_id) ==
    IF Contains(d.ref_ids, ref_id)
    THEN LET ref_id_pos == IndexOf(d.ref_ids, ref_id)
         IN  [d EXCEPT !.ref_ids      = Pop(@, ref_id_pos),
                       !.tau          = Pop(@, ref_id_pos),
                       !.conversion   = Pop(@, ref_id_pos),
                       !.is_active    = Pop(@, ref_id_pos),
                       !.is_simulated = Pop(@, ref_id_pos),
                       !.error        = None,
                       !.rate         = None,
                       !.r_squared    = None,
                       !.plotdata     = None,
                       !.fitdata      = None,
                       !.simuldata    = None,
                       !.updated      = TRUE]
    ELSE d

\* Variant of G3_rate_matches: the reactor temperature is not compared.
G3_rate_matches_p(d, proc_data) == proc_data.p = d.p

G3_rate_matches(d, proc_data) ==
    proc_data.p = d.p /\ proc_data.T_reactor = d.T_reactor

\* Variant of G3_rate_append: the data point is put in front.
G3_rate_append_first(d, proc_data) ==
    [d EXCEPT !.ref_ids      = <<proc_data.id>> \o @,
              !.tau          = <<proc_data.tau>> \o @,
              !.conversion   = <<proc_data.conversion>> \o @,
              !.is_active    = <<proc_data.is_active>> \o @,
              !.is_simulated = <<proc_data.is_simulated>> \o @,
              !.error        = None,
              !.rate         = None,
              !.r_squared    = None,
              !.plotdata     = None,
              !.fitdata      = None,
              !.simuldata    = None,
              !.updated      = TRUE]

\* The insertion into one rate dict whose key matches.
G3_rate_append(d, proc_data) ==
    [d EXCEPT !.ref_ids      = Append(@, proc_data.id),
              !.tau          = Append(@, proc_data.tau),
              !.conversion   = Append(@, proc_data.conversion),
              !.is_active    = Append(@, proc_data.is_active),
              !.is_simulated = Append(@, proc_data.is_simulated),
              !.error        = None,
              !.rate         = None,
              !.r_squared    = None,
              !.plotdata     = None,
              !.fitdata      = None,
              !.simuldata    = None,
              !.updated      = TRUE]

G3_rate_new(rate_ds, proc_data) ==
    [id           |-> MaxId(rate_ds) + 1,
     ref_ids      |-> <<proc_data.id>>,
     p            |-> proc_data.p,
     T_reactor    |-> proc_data.T_reactor,
     error        |-> None,
     tau          |-> <<proc_data.tau>>,
     conversion   |-> <<proc_data.conversion>>,
     is_active    |-> <<proc_data.is_active>>,
     is_simulated |-> <<proc_data.is_simulated>>,
     updated      |-> TRUE,
     rate         |-> None,
     r_squared    |-> None,
     plotdata     |-> None,
     fitdata      |-> None,
     simuldata    |-> None]

\* Variant of G3_rate_removal_pass: nothing is removed.
G3_rate_removal_skipped(rate_ds, ref_id) == rate_ds

G3_rate_removal_pass(rate_ds, ref_id) ==
    [i \in DOMAIN rate_ds |-> G3_rate_remove(rate_ds[i], ref_id)]

G3_rate_insertion_pass(rate_ds, proc_data) ==
    LET ref_id_added == \E i \in DOMAIN rate_ds : G3_rate_matches(rate_ds[i], proc_data)
        appended == [i \in DOMAIN rate_ds |->
                        IF G3_rate_matches(rate_ds[i], proc_data)
                        THEN G3_rate_append(rate_ds[i], proc_data)
                        ELSE rate_ds[i]]
    IN  IF ref_id_added
        THEN appended
        ELSE Append(rate_ds, G3_rate_new(rate_ds, proc_data))

\* Variant of G3_rate_inserts: the deleted flag is ignored.
G3_rate_inserts_deleted(proc_data, deleted) == proc_data.is_active # FALSE

\* Whether upd_rate_dicts goes on to the insertion pass.
G3_rate_inserts(proc_data, deleted) ==
    deleted = FALSE /\ proc_data.is_active # FALSE

G3_upd_rate_dicts(proc_data, rate_ds, deleted) ==
    LET removed == G3_rate_removal_pass(rate_ds, proc_data.id)
    IN  IF G3_rate_inserts(proc_data, deleted)
        THEN G3_rate_insertion_pass(removed, proc_data)
        ELSE removed

\* curve_fit of conversion = rate * tau: the least squares slope through
\* the origin, sum(tau * conversion) / sum(tau * tau).
G3_calc_rate(tau, conversion) ==
    [num |-> SumProd(tau, conversion), den |-> SumProd(tau, tau)]

\* Variant of G3_rate_error: the message for two values is kept for more.
G3_rate_error_kept(unique_tau) ==
    IF unique_tau = 1
    THEN <<"Only", "one", "unique", "tau", "value", ".">>
    ELSE <<"Only", "two", "unique", "tau", "values", ".", "The", "calculated",
           "rate", "is", "only", "an", "estimate", ".">>

\* The three-tier message of perform_rate_analysis.
G3_rate_error(unique_tau) ==
    IF unique_tau = 1
    THEN <<"Only", "one", "unique", "tau", "value", ".", "Need", "at",
           "least", "three", "to", "calculate", "rate", ".", "The",
           "calculated", "rate", "is", "only", "an", "estimate", "and",
           "will", "not", "be", "used", "for", "further", "calculations",
           ".", "Please", "add", "more", "data", "points", "to",
           "calculate", "the", "rate", "accurately", ".">>
    ELSE IF unique_tau = 2
    THEN <<"Only", "two", "unique", "tau", "values", ".", "Need", "at",
           "least", "three", "to", "calculate", "rate", ".", "The",
           "calculated", "rate", "is", "only", "an", "estimate", "and",
           "will", "not", "be", "used", "for", "further", "calculations",
           ".", "Please", "add", "more", "data", "points", "to",
           "calculate", "the", "rate", "accurately", ".">>
    ELSE None

\* Q_(None) raises TypeError before the try block of perform_rate_analysis.
G3_rate_analysis_raises(d) ==
    \/ Contains(d.tau, None)
    \/ Contains(d.conversion, None)

\* Variant of Select: every entry is taken, whatever its flag.
Select_all(col, flags, b) == col

Select(col, flags, b) ==
    LET F[i \in 0..Len(col)] ==
            IF i = 0 THEN <<>>
            ELSE IF flags[i] = b THEN Append(F[i - 1], col[i]) ELSE F[i - 1]
    IN  F[Len(col)]

\* Variant of perform_rate_analysis: the distinct tau values are counted
\* after the origin was appended.
perform_rate_analysis_origin_counted(d) ==
    LET tau0       == Append(Mags(d.tau), 0)
        conv0      == Append(Mags(d.conversion), 0)
        simul0     == Append(d.is_simulated, FALSE)
        unique_tau == Unique(tau0)
        fit        == G3_calc_rate(tau0, conv0)
    IN  IF fit.den = 0
        THEN d                                  \* calc_rate fails: nothing is set
        ELSE IF fit.num = 0
        THEN [d EXCEPT !.rate = None,           \* a zero rate is falsy
                       !.r_squared = <<"nan">>]
        ELSE [d EXCEPT !.rate      = <<fit.num, fit.den, "mol/kg/s">>,
                       !.r_squared = <<"r2">>,
                       !.plotdata  = <<Select(tau0, simul0, FALSE), Select(conv0, simul0, FALSE)>>,
                       !.simuldata = <<Select(tau0, simul0, TRUE), Select(conv0, simul0, TRUE)>>,
                       !.fitdata   = <<<<SetMin(Range(tau0)), SetMax(Range(tau0))>>, <<fit.num, fit.den>>>>,
                       !.error     = G3_rate_error(unique_tau)]

perform_rate_analysis(d) ==
    LET tau0       == Append(Mags(d.tau), 0)
        conv0      == Append(Mags(d.conversion), 0)
        simul0     == Append(d.is_simulated, FALSE)
        unique_tau == Unique(Mags(d.tau))
        fit        == G3_calc_rate(tau0, conv0)
    IN  IF fit.den = 0
        THEN d                                  \* calc_rate fails: nothing is set
        ELSE IF fit.num = 0
        THEN [d EXCEPT !.rate = None,           \* a zero rate is falsy
                       !.r_squared = <<"nan">>]
        ELSE [d EXCEPT !.rate      = <<fit.num, fit.den, "mol/kg/s">>,
                       !.r_squared = <<"r2">>,
                       !.plotdata  = <<Select(tau0, simul0, FALSE), Select(conv0, simul0, FALSE)>>,
                       !.simuldata = <<Select(tau0, simul0, TRUE), Select(conv0, simul0, TRUE)>>,
                       !.fitdata   = <<<<SetMin(Range(tau0)), SetMax(Range(tau0))>>, <<fit.num, fit.den>>>>,
                       !.error     = G3_rate_error(unique_tau)]

\* Minimum number of distinct tau values for which upd_rates fits.
G3_rate_min_unique == 1

\* Variant of G3_upd_rate: the rate of a dict that is not updated is reset.
G3_upd_rate_resetting(d) ==
    IF d.updated = TRUE
    THEN IF Unique(d.tau) >= G3_rate_min_unique
         THEN perform_rate_analysis(d)
         ELSE [d EXCEPT !.rate = None]
    ELSE [d EXCEPT !.rate = None]

\* Variant of G3_upd_rate: the rate fit clears the updated flag.
G3_upd_rate_clearing(d) ==
    IF d.updated = TRUE
    THEN IF Unique(d.tau) >= G3_rate_min_unique
         THEN [perform_rate_analysis(d) EXCEPT !.updated = FALSE]
         ELSE [d EXCEPT !.rate = None, !.updated = FALSE]
    ELSE d

G3_upd_rate(d) ==
    IF d.updated = TRUE
    THEN IF Unique(d.tau) >= G3_rate_min_unique
         THEN perform_rate_analysis(d)
         ELSE [d EXCEPT !.rate = None]
    ELSE d

G3_upd_rates_raises(rate_ds) ==
    \E i \in DOMAIN rate_ds :
        /\ rate_ds[i].updated = TRUE
        /\ Unique(rate_ds[i].tau) >= G3_rate_min_unique
        /\ G3_rate_analysis_raises(rate_ds[i])

G3_upd_rates(rate_ds) == [i \in DOMAIN rate_ds |-> G3_upd_rate(rate_ds[i])]

(***************************************************************************)
(* G3: Ea groups (G3/utils.py upd_ea_dicts, upd_ea; analysis.py)           *)
(***************************************************************************)
\* linregress raises when all x values are identical; calc_slope then
\* returns None and the caller's unpacking fails inside its try block.
calc_slope_ok(x) == Cardinality(Range(x)) >= 2

\* The fitted line, kept as the data it was fitted to.
calc_slope(x, y) == <<x, y>>

\* Variant of G3_ea_remove: the rate dict is left in the Ea dict.
G3_ea_remove_skipped(d, ref_id) == d

G3_ea_remove(d, ref_id) ==
    IF Contains(d.ref_ids, ref_id)
    THEN LET ref_id_pos == IndexOf(d.ref_ids, ref_id)
         IN  [d EXCEPT !.ref_ids      = Pop(@, ref_id_pos),
                       !.T_reactor    = Pop(@, ref_id_pos),
                       !.rate         = Pop(@, ref_id_pos),
                       !.error        = None,
                       !.is_simulated = None,
                       !.Ea           = None,
                       !.A_app        = None,
                       !.r_squared    = None,
                       !.plotdata     = None,
                       !.fitdata      = None,
                       !.updated      = TRUE]
    ELSE d

G3_ea_append(d, r) ==
    [d EXCEPT !.ref_ids      = Append(@, r.id),
              !.T_reactor    = Append(@, r.T_reactor),
              !.rate         = Append(@, r.rate),
              !.error        = None,
              !.Ea           = None,
              !.A_app        = None,
              !.r_squared    = None,
              !.plotdata     = None,
              !.fitdata      = None,
              !.updated      = TRUE,
              !.is_simulated = <<AnyTrue(r.is_simulated)>>]

G3_ea_new(ea_ds, r) ==
    [id           |-> MaxId(ea_ds) + 1,
     ref_ids      |-> <<r.id>>,
     p            |-> r.p,
     error        |-> None,
     T_reactor    |-> <<r.T_reactor>>,
     rate         |-> <<r.rate>>,
     updated      |-> TRUE,
     is_simulated |-> <<AnyTrue(r.is_simulated)>>,
     Ea           |-> None,
     A_app        |-> None,
     r_squared    |-> None,
     plotdata     |-> None,
     fitdata      |-> None]

\* Variant of G3_rate_feeds: the error of the rate dict is not looked at.
G3_rate_feeds_estimates(r) == r.rate # None

\* Whether an updated rate dict is (re-)inserted into the second level.
G3_rate_feeds(r) == r.rate # None /\ r.error = None

\* The body of the loop of upd_ea_dicts for one updated rate dict r.
G3_ea_upsert(ea_ds, r) ==
    LET removed == [i \in DOMAIN ea_ds |-> G3_ea_remove(ea_ds[i], r.id)]
        ref_id_added == \E i \in DOMAIN removed : r.p = removed[i].p
    IN  IF G3_rate_feeds(r)
        THEN IF ref_id_added
             THEN [i \in DOMAIN removed |->
                     IF r.p = removed[i].p THEN G3_ea_append(removed[i], r)
                                           ELSE removed[i]]
             ELSE Append(removed, G3_ea_new(removed, r))
        ELSE removed

G3_upd_ea_dicts(rate_ds, ea_ds) ==
    LET F[i \in 0..Len(rate_ds)] ==
            IF i = 0 THEN ea_ds
            ELSE IF rate_ds[i].updated = TRUE
                 THEN G3_ea_upsert(F[i - 1], rate_ds[i])
                 ELSE F[i - 1]
    IN  F[Len(rate_ds)]

G3_ea_error(unique_T) ==
    IF unique_T = 1
    THEN <<"Only", "one", "unique", "T_reactor", "value", ".", "Need", "at",
           "least", "three", "to", "calculate", "Ea", ".", "Activation",
           "energy", "cannot", "be", "calculated", ".", "Please", "add",
           "more", "data", "points", "to", "calculate", "the", "Ea", ".">>
    ELSE IF unique_T = 2
    THEN <<"Only", "two", "unique", "T_reactor", "values", ".", "Need",
           "at", "least", "three", "to", "calculate", "Ea", ".", "The",
           "calculated", "Ea", "is", "only", "an", "estimate", ".",
           "Please", "add", "more", "data", "points", "at", "different",
           "T", "to", "calculate", "the", "Ea", "accurately", ".">>
    ELSE None

\* ln(rate) is kept as the rate's nominal value (numerator, denominator).
LogRates(rate) == [i \in DOMAIN rate |-> <<rate[i][1], rate[i][2]>>]

G3_perform_ea_analysis(d) ==
    LET ln_r     == LogRates(d.rate)
        T_inv    == Mags(d.T_reactor)
        unique_T == Unique(d.T_reactor)
    IN  IF calc_slope_ok(T_inv)
        THEN [d EXCEPT !.Ea        = <<calc_slope(T_inv, ln_r), "J/mol">>,
                       !.A_app     = <<calc_slope(T_inv, ln_r), "">>,
                       !.r_squared = <<"r2">>,
                       !.plotdata  = <<T_inv, ln_r>>,
                       !.fitdata   = <<<<SetMin(Range(T_inv)), SetMax(Range(T_inv))>>,
                                       calc_slope(T_inv, ln_r)>>,
                       !.error     = G3_ea_error(unique_T)]
        ELSE d

\* Minimum number of distinct independent values for which the second
\* level (Ea, reaction order) fits.
MinUnique == 2

\* Variant of G3_upd_ea_one: the fit needs three distinct temperatures.
G3_upd_ea_strict(d) ==
    IF d.updated = TRUE
    THEN [(IF Unique(d.T_reactor) >= MinUnique + 1
           THEN G3_perform_ea_analysis(d)
           ELSE [d EXCEPT !.Ea = None, !.A_app = None])
          EXCEPT !.updated = FALSE]
    ELSE d

G3_upd_ea_one(d) ==
    IF d.updated = TRUE
    THEN [(IF Unique(d.T_reactor) >= MinUnique
           THEN G3_perform_ea_analysis(d)
           ELSE [d EXCEPT !.Ea = None, !.A_app = None])
          EXCEPT !.updated = FALSE]
    ELSE d

G3_upd_ea(ea_ds) == [i \in DOMAIN ea_ds |-> G3_upd_ea_one(ea_ds[i])]

(***************************************************************************)
(* G3: reaction order groups (upd_ro_dicts, upd_ro; analysis.py)           *)
(***************************************************************************)
G3_ro_remove(d, ref_id) ==
    IF Contains(d.ref_ids, ref_id)
    THEN LET ref_id_pos == IndexOf(d.ref_ids, ref_id)
         IN  [d EXCEPT !.ref_ids      = Pop(@, ref_id_pos),
                       !.p            = Pop(@, ref_id_pos),
                       !.rate         = Pop(@, ref_id_pos),
                       !.error        = None,
                       !.is_simulated = None,
                       !.r_order      = None,
                       !.r_squared    = None,
                       !.plotdata     = None,
                       !.fitdata      = None,
                       !.updated      = TRUE]
    ELSE d

G3_ro_append(d, r) ==
    [d EXCEPT !.ref_ids      = Append(@, r.id),
              !.p            = Append(@, r.p),
              !.rate         = Append(@, r.rate),
              !.error        = None,
              !.r_order      = None,
              !.r_squared    = None,
              !.plotdata     = None,
              !.fitdata      = None,
              !.updated      = TRUE,
              !.is_simulated = <<AnyTrue(r.is_simulated)>>]

G3_ro_new(ro_ds, r) ==
    [id           |-> MaxId(ro_ds) + 1,
     ref_ids      |-> <<r.id>>,
     T_reactor    |-> r.T_reactor,
     error        |-> None,
     p            |-> <<r.p>>,
     rate         |-> <<r.rate>>,
     updated      |-> TRUE,
     is_simulated |-> <<AnyTrue(r.is_simulated)>>,
     r_order      |-> None,
     r_squared    |-> None,
     plotdata     |-> None,
     fitdata      |-> None]

G3_ro_upsert(ro_ds, r) ==
    LET removed == [i \in DOMAIN ro_ds |-> G3_ro_remove(ro_ds[i], r.id)]
        ref_id_added == \E i \in DOMAIN removed : r.T_reactor = removed[i].T_reactor
    IN  IF G3_rate_feeds(r)
        THEN IF ref_id_added
             THEN [i \in DOMAIN removed |->
                     IF r.T_reactor = removed[i].T_reactor
                     THEN G3_ro_append(removed[i], r)
                     ELSE removed[i]]
             ELSE Append(removed, G3_ro_new(removed, r))
        ELSE removed

G3_upd_ro_dicts(rate_ds, ro_ds) ==
    LET F[i \in 0..Len(rate_ds)] ==
            IF i = 0 THEN ro_ds
            ELSE IF rate_ds[i].updated = TRUE
                 THEN G3_ro_upsert(F[i - 1], rate_ds[i])
                 ELSE F[i - 1]
    IN  F[Len(rate_ds)]

\* Variant of G3_clear_updated: the flags of the rate dicts are left set.
G3_clear_updated_skipped(rate_ds) == rate_ds

\* upd_ro_dicts also clears the updated flag of every rate dict it handles.
G3_clear_updated(rate_ds) ==
    [i \in DOMAIN rate_ds |-> [rate_ds[i] EXCEPT !.updated = FALSE]]

G3_ro_error(unique_p) ==
    IF unique_p = 1
    THEN <<"Only", "one", "unique", "pressure", "value", ".", "Need", "at",
           "least", "three", "to", "calculate", "reaction", "order", ".",
           "Reaction", "order", "cannot", "be", "calculated", ".", "Please",
           "add", "more", "data", "points", "to", "calculate", "the",
           "reaction", "order", ".">>
    ELSE IF unique_p = 2
    THEN <<"Only", "two", "unique", "pressure", "values", ".", "Need", "at",
           "least", "three", "to", "calculate", "reaction", "order", ".",
           "The", "calculated", "reaction", "order", "is", "only", "an",
           "estimate", ".", "Please", "add", "more", "data", "points", "at",
           "unique", "pressure", "to", "calculate", "the", "reaction",
           "order", "accurately", ".">>
    ELSE None

G3_perform_ro_analysis(d) ==
    LET log_r    == LogRates(d.rate)
        log_p    == Mags(d.p)
        unique_p == Unique(d.p)
    IN  IF calc_slope_ok(log_p)
        THEN [d EXCEPT !.r_order   = <<calc_slope(log_p, log_r), "">>,
                       !.r_squared = <<"r2">>,
                       !.plotdata  = <<log_p, log_r>>,
                       !.fitdata   = <<<<SetMin(Range(log_p)), SetMax(Range(log_p))>>,
                                       calc_slope(log_p, log_r)>>,
                       !.error     = G3_ro_error(unique_p)]
        ELSE d

G3_upd_ro_one(d) ==
    IF d.updated = TRUE
    THEN [(IF Unique(d.p) >= MinUnique
           THEN G3_perform_ro_analysis(d)
           ELSE [d EXCEPT !.r_order = None])
          EXCEPT !.updated = FALSE]
    ELSE d

G3_upd_ro(ro_ds) == [i \in DOMAIN ro_ds |-> G3_upd_ro_one(ro_ds[i])]

(***************************************************************************)
(* G3: orchestrator (upd_g3results) and signal handlers (G3/signals.py)    *)
(***************************************************************************)
\* The second level and the save of upd_g3results, given the rate dicts
\* upd_rates has refitted.
G3_second_level(rate_ds, ea_ds, ro_ds) ==
    [raised     |-> FALSE,
     rate_dicts |-> G3_clear_updated(rate_ds),
     ea_dicts   |-> G3_upd_ea(G3_upd_ea_dicts(rate_ds, ea_ds)),
     ro_dicts   |-> G3_upd_ro(G3_upd_ro_dicts(rate_ds, ro_ds))]

\* Variant of G3_first_level: the second-level membership is updated from
\* the rate dicts as they are before upd_rates refits them.
G3_first_level_swapped(regrouped, rate_ds, ea_ds, ro_ds) ==
    IF G3_upd_rates_raises(regrouped)
    THEN [raised |-> TRUE, rate_dicts |-> rate_ds, ea_dicts |-> ea_ds,
          ro_dicts |-> ro_ds]
    ELSE [raised     |-> FALSE,
          rate_dicts |-> G3_clear_updated(G3_upd_rates(regrouped)),
          ea_dicts   |-> G3_upd_ea(G3_upd_ea_dicts(regrouped, ea_ds)),
          ro_dicts   |-> G3_upd_ro(G3_upd_ro_dicts(regrouped, ro_ds))]

\* upd_g3results from upd_rates on, given the regrouped rate dicts; raised
\* tells that the TypeError of perform_rate_analysis left the function
\* before save(), so that the stored results stay as they were.
G3_first_level(regrouped, rate_ds, ea_ds, ro_ds) ==
    IF G3_upd_rates_raises(regrouped)
    THEN [raised |-> TRUE, rate_dicts |-> rate_ds, ea_dicts |-> ea_ds,
          ro_dicts |-> ro_ds]
    ELSE G3_second_level(G3_upd_rates(regrouped), ea_ds, ro_ds)

\* upd_g3results on the fetched G3Results record.
upd_g3results(proc_data, deleted, rate_ds, ea_ds, ro_ds) ==
    G3_first_level(G3_upd_rate_dicts(proc_data, rate_ds, deleted),
                   rate_ds, ea_ds, ro_ds)

G3NoRow ==
    [exists |-> FALSE, raw_data |-> None, proc_data |-> None,
     is_active |-> FALSE, is_simulated |-> FALSE]

\* The stored G3 records of one user experiment.
G3Store == [g3data |-> g3data, rate_dicts |-> rate_dicts,
            ea_dicts |-> ea_dicts, ro_dicts |-> ro_dicts]

G3EmptyStore == [g3data |-> [id \in Ids |-> G3NoRow], rate_dicts |-> <<>>,
                 ea_dicts |-> <<>>, ro_dicts |-> <<>>]

G3StoredIn(st) == {id \in Ids : st.g3data[id].exists}

G3Stored == G3StoredIn(G3Store)

\* Whether upd_proc_data calls calc_proc_data: for a new row, and for a
\* stored row (db) whose raw_data or is_active differ from the instance's.
G3_derives(db, instance) ==
    IF db.exists
    THEN db.raw_data # instance.raw_data \/ db.is_active # instance.is_active
    ELSE TRUE

\* upd_proc_data (pre_save): the proc_data the instance carries into the
\* write, given the stored row (db) and the instance being saved.
G3_upd_proc_data(db, instance) ==
    IF G3_derives(db, instance)
    THEN G3_calc_proc_data(instance.raw_data)
    ELSE instance.proc_data

\* The fields a save writes: all of them, or raw_data alone
\* (update_fields = ["raw_data", "file"]).
G3_written(db, instance, raw_only) ==
    IF raw_only THEN [db EXCEPT !.raw_data = instance.raw_data] ELSE instance

\* The store with the given rows and the results of upd_g3results, which
\* ran on proc_data; derived tells whether calc_proc_data was called.
G3_stored(rows, res, proc_data, derived) ==
    [g3data     |-> rows,
     rate_dicts |-> res.rate_dicts,
     ea_dicts   |-> res.ea_dicts,
     ro_dicts   |-> res.ro_dicts,
     raised     |-> res.raised,
     proc_data  |-> proc_data,
     derived    |-> derived]

\* The write of the row, then G3Data_post_save.
G3Data_post_save(st, id, instance, raw_only, derived) ==
    G3_stored([st.g3data EXCEPT ![id] = G3_written(st.g3data[id], instance, raw_only)],
              upd_g3results(instance.proc_data, FALSE,
                            st.rate_dicts, st.ea_dicts, st.ro_dicts),
              instance.proc_data, derived)

\* Model.save(): G3Data_pre_save, the write of the row, G3Data_post_save.
\* The result is the store afterwards and whether post_save raised.
G3Data_save(st, id, instance, raw_only) ==
    G3Data_post_save(st, id,
                     [instance EXCEPT !.proc_data =
                                         G3_upd_proc_data(st.g3data[id], instance)],
                     raw_only, G3_derives(st.g3data[id], instance))

\* Deletion of a row followed by G3Data_post_delete.
G3Data_post_delete(st, pk) ==
    G3_stored([st.g3data EXCEPT ![pk] = G3NoRow],
              upd_g3results(st.g3data[pk].proc_data, TRUE,
                            st.rate_dicts, st.ea_dicts, st.ro_dicts),
              st.g3data[pk].proc_data, FALSE)

\* max id + 1 of the add views.
G3_next_id(st) == IF G3StoredIn(st) = {} THEN 1 ELSE SetMax(G3StoredIn(st)) + 1

\* The row G3_data_add (is_simulated FALSE) and G3_data_simulation
\* (is_simulated TRUE) create, saved.
G3_create(st, form, is_simulated) ==
    G3Data_save(st, G3_next_id(st),
                [exists       |-> TRUE,
                 raw_data     |-> G3_prepare_for_db_storage(form, G3_next_id(st), TRUE,
                                                            is_simulated),
                 proc_data    |-> None,
                 is_active    |-> TRUE,
                 is_simulated |-> is_simulated],
                FALSE)

G3_edit(st, pk, form) ==
    LET g3_data  == st.g3data[pk]
        metadata == G3_prepare_for_db_storage(form, pk, g3_data.is_active,
                                              g3_data.is_simulated)
    IN  G3Data_save(st, pk, [g3_data EXCEPT !.raw_data = metadata], TRUE)

G3_toggle(st, pk) ==
    LET g3_data == st.g3data[pk]
        flag    == ~g3_data.is_active
    IN  G3Data_save(st, pk, [g3_data EXCEPT !.is_active = flag,
                                            !.raw_data.is_active = flag], FALSE)

\* G3Data.enable() (flag TRUE) and G3Data.disable() (flag FALSE).
G3_set_active(st, pk, flag) ==
    G3Data_save(st, pk, [st.g3data[pk] EXCEPT !.is_active = flag], FALSE)

\* The values a form can carry.
G3Form(T_bath, T_reactor, V_flow, A_reactant) ==
    [T_bath |-> T_bath, T_reactor |-> T_reactor, M_catalyst |-> 75,
     V_flow |-> V_flow, A_reactant |-> A_reactant, A_product |-> 5]

G3Forms ==
    { G3Form(300, 500, 1, 10), G3Form(300, 500, 2, 10), G3Form(300, 500, 3, 10),
      G3Form(300, 520, 1, 10), G3Form(310, 500, 1, 10),
      G3Form(300, 500, 0, 10), G3Form(300, 500, 1, 0) }

\* Stores reached by uploading the listed data points one after another.
RECURSIVE G3_uploaded(_)
G3_uploaded(forms) ==
    IF forms = <<>>
    THEN G3EmptyStore
    ELSE G3_create(G3_uploaded(SubSeq(forms, 1, Len(forms) - 1)),
                   forms[Len(forms)], FALSE)

\* Three space times at one bath and reactor temperature.
G3Series(T_bath, T_reactor) ==
    <<G3Form(T_bath, T_reactor, 1, 10), G3Form(T_bath, T_reactor, 2, 10),
      G3Form(T_bath, T_reactor, 3, 10)>>

G3Seeds ==
    << <<>>,
       G3Series(300, 500),
       G3Series(300, 500) \o SubSeq(G3Series(300, 520), 1, 2),
       G3Series(300, 500) \o G3Series(300, 520),
       G3Series(300, 500) \o G3Series(310, 500),
       SubSeq(G3Series(300, 500), 1, 2) \o G3Series(300, 520) \o G3Series(300, 540),
       G3Series(300, 520) \o G3Series(300, 500) \o SubSeq(G3Series(300, 520), 1, 1),
       <<>> >>

\* The last initial store is empty, with a G3SimulParams record that holds
\* the default of its simul_dicts field.
G3DefaultSeed == Len(G3Seeds)

(***************************************************************************)
(* G1: derivation of one data point (G1/analysis.py)                       *)
(***************************************************************************)
\* threshold of calc_init_slope, as a fraction
R2_num == 99
R2_den == 100

\* Initial guess of curve_fit, which it returns when every x is zero.
P0 == 1

Prefix(s, i) == SubSeq(s, 1, i)

\* r_sq >= threshold for the fit y = m * x of the first i points; false
\* when ss_tot is zero (r_sq is then nan or -inf).
G1_r_sq_ok(x, y, i) ==
    LET xs  == Prefix(x, i)
        ys  == Prefix(y, i)
        Sxy == SumProd(xs, ys)
        Sxx == SumProd(xs, xs)
        Syy == SumProd(ys, ys)
        Sy  == SumProd(ys, [j \in 1..i |-> 1])
        \* ss_res = res_n / res_d and ss_tot = tot_n / i
        res_n == IF Sxx = 0 THEN SumProd([j \in 1..i |-> ys[j] - P0 * xs[j]],
                                         [j \in 1..i |-> ys[j] - P0 * xs[j]])
                            ELSE Syy * Sxx - Sxy * Sxy
        res_d == IF Sxx = 0 THEN 1 ELSE Sxx
        tot_n == i * Syy - Sy * Sy
    IN  /\ tot_n # 0
        /\ R2_den * res_n * i <= (R2_den - R2_num) * tot_n * res_d

\* What calc_init_slope returns when it has accepted no fit.
NoFit == [slope |-> None, r_squared |-> None, num_points |-> None]

\* No call of calc_init_slope on its own.
NoTrial == [x |-> <<>>, y |-> <<>>, min_points |-> 0, called |-> FALSE, fit |-> NoFit]

\* The fit of the first n points, as calc_init_slope returns it.
G1_prefix_fit(x, y, n) ==
    [slope      |-> IF SumProd(Prefix(x, n), Prefix(x, n)) = 0 THEN <<P0, 1>>
                    ELSE <<SumProd(Prefix(x, n), Prefix(y, n)),
                           SumProd(Prefix(x, n), Prefix(x, n))>>,
     r_squared  |-> <<"r2", n>>,
     num_points |-> <<n>>]

\* Variant of calc_init_slope: the number of points grows until a fit
\* reaches the threshold, and the last fit is returned when none does.
calc_init_slope_first(x, y, min_points) ==
    IF min_points = 0
    THEN NoFit
    ELSE LET good == {n \in min_points..Len(x) : G1_r_sq_ok(x, y, n)}
         IN  G1_prefix_fit(x, y, IF good = {} THEN Len(x) ELSE SetMin(good))

\* Variant of calc_init_slope: the fit of the first min_points points is
\* accepted only when it reaches the threshold.
calc_init_slope_strict(x, y, min_points) ==
    IF min_points = 0 \/ ~G1_r_sq_ok(x, y, min_points)
    THEN NoFit
    ELSE G1_prefix_fit(x, y, SetMax({n \in min_points..Len(x) :
                                       \A i \in min_points..n : G1_r_sq_ok(x, y, i)}))

\* Variant of calc_init_slope: the loop ends after its first pass.
calc_init_slope_baseline(x, y, min_points) ==
    IF min_points = 0 THEN NoFit ELSE G1_prefix_fit(x, y, min_points)

\* calc_init_slope: the slope is the pair (numerator, denominator) of the
\* least-squares m of y = m * x over the points kept; curve_fit raises on
\* an empty slice, which leaves slope, r_squared and num_points None.
calc_init_slope(x, y, min_points) ==
    IF min_points = 0
    THEN [slope |-> None, r_squared |-> None, num_points |-> None]
    ELSE LET kept == {n \in min_points..Len(x) :
                         \A i \in (min_points + 1)..n : G1_r_sq_ok(x, y, i)}
             n    == SetMax(kept)
             Sxx  == SumProd(Prefix(x, n), Prefix(x, n))
         IN  [slope      |-> IF Sxx = 0 THEN <<P0, 1>>
                             ELSE <<SumProd(Prefix(x, n), Prefix(y, n)), Sxx>>,
              r_squared  |-> <<"r2", n>>,
              num_points |-> <<n>>]

\* Conversion Xt as numerators over the common denominator sigma0 - sigma100.
G1_Xt(sigma) == [i \in DOMAIN sigma |-> SetMax(Range(sigma)) - sigma[i]]

G1_span(sigma) == SetMax(Range(sigma)) - SetMin(Range(sigma))

\* np.where(Xt >= 0.25)[0]: the 0-based positions at 25 % conversion or more
\* (none when sigma is constant: Xt is then nan everywhere).
G1_where(sigma) ==
    {i - 1 : i \in {j \in DOMAIN sigma :
                      G1_span(sigma) # 0 /\ 4 * G1_Xt(sigma)[j] >= G1_span(sigma)}}

\* calc_proc_data raises IndexError when no sample reaches 25 % conversion
\* and TypeError (None * C_base) when calc_init_slope gives no slope.
G1_calc_raises(raw_data, file) ==
    \/ G1_where(file.sigma) = {}
    \/ calc_init_slope(file.t, G1_Xt(file.sigma), SetMin(G1_where(file.sigma))).slope = None

\* rate = slope * C_base
G1_rate(slope, C_base, span) == <<slope[1] * C_base, slope[2] * span, "mol/m^3/s">>

\* The dictionary calc_proc_data returns, given the fit of calc_init_slope.
G1_data_dict(raw_data, file, fit) ==
    [id         |-> raw_data.id,
     T_reaction |-> raw_data.T_reaction,
     C_base     |-> raw_data.C_base,
     C_ester    |-> raw_data.C_ester,
     is_active  |-> raw_data.is_active,
     rate       |-> G1_rate(fit.slope, Q_(raw_data.C_base), G1_span(file.sigma)),
     r_squared  |-> fit.r_squared,
     plotdata   |-> <<file.t, file.sigma>>,
     fitdata    |-> Prefix(file.t, fit.num_points[1])]

G1_calc_proc_data(raw_data, file) ==
    G1_data_dict(raw_data, file,
                 calc_init_slope(file.t, G1_Xt(file.sigma), SetMin(G1_where(file.sigma))))

\* proc_data = {} of a row whose derivation has never succeeded; every
\* key reads as None.  An absent id (0) equals no data point id.
G1_no_proc_data ==
    [id |-> 0, T_reaction |-> None, C_base |-> None, C_ester |-> None,
     is_active |-> None, rate |-> None, r_squared |-> None,
     plotdata |-> None, fitdata |-> None]

G1_prepare_for_db_storage(form, id, is_active) ==
    [id         |-> id,
     T_reaction |-> Fmt(form.T_reaction, "K"),
     C_base     |-> Fmt(form.C_base, "mol/m^3"),
     C_ester    |-> Fmt(form.C_ester, "mol/m^3"),
     is_active  |-> <<is_active>>]

\* proc_data.get("is_active") is False
G1_inactive(proc_data) == proc_data.is_active = <<FALSE>>

\* Whether upd_*_dicts inserts the data point after the removal pass.
G1_inserts(proc_data, deleted) ==
    /\ deleted = FALSE
    /\ ~G1_inactive(proc_data)
    /\ proc_data.rate # None

(***************************************************************************)
(* G1: Ea groups (G1/utils.py upd_ea_dicts, upd_ea) *)
(***************************************************************************)
\* Variant of G1_ea_remove: the data point is left in the group.
G1_ea_remove_skipped(d, ref_id) == d

G1_ea_remove(d, ref_id) ==
    IF Contains(d.ref_ids, ref_id)
    THEN LET ref_id_pos == IndexOf(d.ref_ids, ref_id)
         IN  [d EXCEPT !.ref_ids   = Pop(@, ref_id_pos),
                       !.T_reaction = Pop(@, ref_id_pos),
                       !.rate      = Pop(@, ref_id_pos),
                       !.error     = None,
                       !.Ea = None,
                       !.A_app = None,
                       !.r_squared = None,
                       !.plotdata  = None,
                       !.fitdata   = None,
                       !.updated   = TRUE]
    ELSE d

G1_ea_matches(d, proc_data) ==
    proc_data.C_base = d.C_base /\ proc_data.C_ester = d.C_ester

G1_ea_append(d, proc_data) ==
    [d EXCEPT !.ref_ids   = Append(@, proc_data.id),
              !.T_reaction = Append(@, proc_data.T_reaction),
              !.rate      = Append(@, proc_data.rate),
              !.error     = None,
              !.Ea = None,
              !.A_app = None,
              !.r_squared = None,
              !.plotdata  = None,
              !.fitdata   = None,
              !.updated   = TRUE]

G1_ea_new(ds, proc_data) ==
    [id        |-> MaxId(ds) + 1,
     ref_ids   |-> <<proc_data.id>>,
     C_base |-> proc_data.C_base,
     C_ester |-> proc_data.C_ester,
     error     |-> None,
     T_reaction |-> <<proc_data.T_reaction>>,
     rate      |-> <<proc_data.rate>>,
     updated   |-> TRUE,
     Ea |-> None,
     A_app |-> None,
     r_squared |-> None,
     plotdata  |-> None,
     fitdata   |-> None]

G1_upd_ea_dicts(proc_data, ds, deleted) ==
    LET removed == [i \in DOMAIN ds |-> G1_ea_remove(ds[i], proc_data.id)]
        ref_id_added == \E i \in DOMAIN removed : G1_ea_matches(removed[i], proc_data)
    IN  IF G1_inserts(proc_data, deleted)
        THEN IF ref_id_added
             THEN [i \in DOMAIN removed |->
                     IF G1_ea_matches(removed[i], proc_data)
                     THEN G1_ea_append(removed[i], proc_data)
                     ELSE removed[i]]
             ELSE Append(removed, G1_ea_new(removed, proc_data))
        ELSE removed

G1_ea_error(unique) ==
    IF unique = 1
    THEN <<"Only", "one", "unique", "T_reactor", "value", ".", "Need", "at",
           "least", "three", "to", "calculate", "Ea", ".", "Activation",
           "energy", "cannot", "be", "calculated", ".", "Please", "add",
           "more", "data", "points", "to", "calculate", "the", "Ea", ".">>
    ELSE IF unique = 2
    THEN <<"Only", "two", "unique", "T_reactor", "values", ".", "Need",
           "at", "least", "three", "to", "calculate", "Ea", ".", "The",
           "calculated", "Ea", "is", "only", "an", "estimate", ".",
           "Please", "add", "more", "data", "points", "at", "different",
           "T", "to", "calculate", "the", "Ea", "accurately", ".">>
    ELSE None

G1_perform_ea_analysis(d) ==
    LET y == LogRates(d.rate)
        x == Mags(d.T_reaction)
    IN  IF calc_slope_ok(x)
        THEN [d EXCEPT
                       !.Ea = <<calc_slope(x, y), "J/mol">>,
                       !.A_app = <<calc_slope(x, y), "">>,
                       !.r_squared = <<"r2">>,
                       !.plotdata  = <<x, y>>,
                       !.fitdata   = <<<<SetMin(Range(x)), SetMax(Range(x))>>,
                                       calc_slope(x, y)>>,
                       !.error     = G1_ea_error(Unique(d.T_reaction))]
        ELSE d

G1_upd_ea_one(d) ==
    IF d.updated = TRUE
    THEN [(IF Unique(d.T_reaction) >= MinUnique
           THEN G1_perform_ea_analysis(d)
           ELSE [d EXCEPT !.Ea = None, !.A_app = None])
          EXCEPT !.updated = FALSE]
    ELSE d

G1_upd_ea(ds) == [i \in DOMAIN ds |-> G1_upd_ea_one(ds[i])]

(***************************************************************************)
(* G1: reaction order in base groups (G1/utils.py upd_ro_base_dicts, upd_ro_base) *)
(***************************************************************************)
G1_ro_base_remove(d, ref_id) ==
    IF Contains(d.ref_ids, ref_id)
    THEN LET ref_id_pos == IndexOf(d.ref_ids, ref_id)
         IN  [d EXCEPT !.ref_ids   = Pop(@, ref_id_pos),
                       !.C_base = Pop(@, ref_id_pos),
                       !.rate      = Pop(@, ref_id_pos),
                       !.error     = None,
                       !.ro_base = None,
                       !.r_squared = None,
                       !.plotdata  = None,
                       !.fitdata   = None,
                       !.updated   = TRUE]
    ELSE d

G1_ro_base_matches(d, proc_data) ==
    proc_data.T_reaction = d.T_reaction /\ proc_data.C_ester = d.C_ester

G1_ro_base_append(d, proc_data) ==
    [d EXCEPT !.ref_ids   = Append(@, proc_data.id),
              !.C_base = Append(@, proc_data.C_base),
              !.rate      = Append(@, proc_data.rate),
              !.error     = None,
              !.ro_base = None,
              !.r_squared = None,
              !.plotdata  = None,
              !.fitdata   = None,
              !.updated   = TRUE]

G1_ro_base_new(ds, proc_data) ==
    [id        |-> MaxId(ds) + 1,
     ref_ids   |-> <<proc_data.id>>,
     T_reaction |-> proc_data.T_reaction,
     C_ester |-> proc_data.C_ester,
     error     |-> None,
     C_base |-> <<proc_data.C_base>>,
     rate      |-> <<proc_data.rate>>,
     updated   |-> TRUE,
     ro_base |-> None,
     r_squared |-> None,
     plotdata  |-> None,
     fitdata   |-> None]

G1_upd_ro_base_dicts(proc_data, ds, deleted) ==
    LET removed == [i \in DOMAIN ds |-> G1_ro_base_remove(ds[i], proc_data.id)]
        ref_id_added == \E i \in DOMAIN removed : G1_ro_base_matches(removed[i], proc_data)
    IN  IF G1_inserts(proc_data, deleted)
        THEN IF ref_id_added
             THEN [i \in DOMAIN removed |->
                     IF G1_ro_base_matches(removed[i], proc_data)
                     THEN G1_ro_base_append(removed[i], proc_data)
                     ELSE removed[i]]
             ELSE Append(removed, G1_ro_base_new(removed, proc_data))
        ELSE removed

G1_ro_base_error(unique) ==
    IF unique = 1
    THEN <<"Only", "one", "unique", "pressure", "value", ".", "Need", "at",
           "least", "three", "to", "calculate", "reaction", "order", ".",
           "Reaction", "order", "cannot", "be", "calculated", ".", "Please",
           "add", "more", "data", "points", "to", "calculate", "the",
           "reaction", "order", ".">>
    ELSE IF unique = 2
    THEN <<"Only", "two", "unique", "pressure", "values", ".", "Need", "at",
           "least", "three", "to", "calculate", "reaction", "order", ".",
           "The", "calculated", "reaction", "order", "is", "only", "an",
           "estimate", ".", "Please", "add", "more", "data", "points", "at",
           "unique", "pressure", "to", "calculate", "the", "reaction",
           "order", "accurately", ".">>
    ELSE None

G1_perform_ro_base_analysis(d) ==
    LET y == LogRates(d.rate)
        x == Mags(d.C_base)
    IN  IF calc_slope_ok(x)
        THEN [d EXCEPT
                       !.ro_base = <<calc_slope(x, y), "">>,
                       !.r_squared = <<"r2">>,
                       !.plotdata  = <<x, y>>,
                       !.fitdata   = <<<<SetMin(Range(x)), SetMax(Range(x))>>,
                                       calc_slope(x, y)>>,
                       !.error     = G1_ro_base_error(Unique(d.C_base))]
        ELSE d

G1_upd_ro_base_one(d) ==
    IF d.updated = TRUE
    THEN [(IF Unique(d.C_base) >= MinUnique
           THEN G1_perform_ro_base_analysis(d)
           ELSE [d EXCEPT !.ro_base = None])
          EXCEPT !.updated = FALSE]
    ELSE d

G1_upd_ro_base(ds) == [i \in DOMAIN ds |-> G1_upd_ro_base_one(ds[i])]

(***************************************************************************)
(* G1: reaction order in ester groups (G1/utils.py upd_ro_ester_dicts, upd_ro_ester) *)
(***************************************************************************)
G1_ro_ester_remove(d, ref_id) ==
    IF Contains(d.ref_ids, ref_id)
    THEN LET ref_id_pos == IndexOf(d.ref_ids, ref_id)
         IN  [d EXCEPT !.ref_ids   = Pop(@, ref_id_pos),
                       !.C_ester = Pop(@, ref_id_pos),
                       !.rate      = Pop(@, ref_id_pos),
                       !.error     = None,
                       !.ro_ester = None,
                       !.r_squared = None,
                       !.plotdata  = None,
                       !.fitdata   = None,
                       !.updated   = TRUE]
    ELSE d

\* Variant of G1_ro_ester_matches: no group is found to match.
G1_ro_ester_matches_none(d, proc_data) == FALSE

G1_ro_ester_matches(d, proc_data) ==
    proc_data.T_reaction = d.T_reaction /\ proc_data.C_base = d.C_base

G1_ro_ester_append(d, proc_data) ==
    [d EXCEPT !.ref_ids   = Append(@, proc_data.id),
              !.C_ester = Append(@, proc_data.C_ester),
              !.rate      = Append(@, proc_data.rate),
              !.error     = None,
              !.ro_ester = None,
              !.r_squared = None,
              !.plotdata  = None,
              !.fitdata   = None,
              !.updated   = TRUE]

G1_ro_ester_new(ds, proc_data) ==
    [id        |-> MaxId(ds) + 1,
     ref_ids   |-> <<proc_data.id>>,
     T_reaction |-> proc_data.T_reaction,
     C_base |-> proc_data.C_base,
     error     |-> None,
     C_ester |-> <<proc_data.C_ester>>,
     rate      |-> <<proc_data.rate>>,
     updated   |-> TRUE,
     ro_ester |-> None,
     r_squared |-> None,
     plotdata  |-> None,
     fitdata   |-> None]

G1_upd_ro_ester_dicts(proc_data, ds, deleted) ==
    LET removed == [i \in DOMAIN ds |-> G1_ro_ester_remove(ds[i], proc_data.id)]
        ref_id_added == \E i \in DOMAIN removed : G1_ro_ester_matches(removed[i], proc_data)
    IN  IF G1_inserts(proc_data, deleted)
        THEN IF ref_id_added
             THEN [i \in DOMAIN removed |->
                     IF G1_ro_ester_matches(removed[i], proc_data)
                     THEN G1_ro_ester_append(removed[i], proc_data)
                     ELSE removed[i]]
             ELSE Append(removed, G1_ro_ester_new(removed, proc_data))
        ELSE removed

G1_ro_ester_error(unique) ==
    IF unique = 1
    THEN <<"Only", "one", "unique", "pressure", "value", ".", "Need", "at",
           "least", "three", "to", "calculate", "reaction", "order", ".",
           "Reaction", "order", "cannot", "be", "calculated", ".", "Please",
           "add", "more", "data", "points", "to", "calculate", "the",
           "reaction", "order", ".">>
    ELSE IF unique = 2
    THEN <<"Only", "two", "unique", "pressure", "values", ".", "Need", "at",
           "least", "three", "to", "calculate", "reaction", "order", ".",
           "The", "calculated", "reaction", "order", "is", "only", "an",
           "estimate", ".", "Please", "add", "more", "data", "points", "at",
           "unique", "pressure", "to", "calculate", "the", "reaction",
           "order", "accurately", ".">>
    ELSE None

G1_perform_ro_ester_analysis(d) ==
    LET y == LogRates(d.rate)
        x == Mags(d.C_ester)
    IN  IF calc_slope_ok(x)
        THEN [d EXCEPT
                       !.ro_ester = <<calc_slope(x, y), "">>,
                       !.r_squared = <<"r2">>,
                       !.plotdata  = <<x, y>>,
                       !.fitdata   = <<<<SetMin(Range(x)), SetMax(Range(x))>>,
                                       calc_slope(x, y)>>,
                       !.error     = G1_ro_ester_error(Unique(d.C_ester))]
        ELSE d

G1_upd_ro_ester_one(d) ==
    IF d.updated = TRUE
    THEN [(IF Unique(d.C_ester) >= MinUnique
           THEN G1_perform_ro_ester_analysis(d)
           ELSE [d EXCEPT !.ro_ester = None])
          EXCEPT !.updated = FALSE]
    ELSE d

G1_upd_ro_ester(ds) == [i \in DOMAIN ds |-> G1_upd_ro_ester_one(ds[i])]

(***************************************************************************)
(* G1: orchestrator (upd_g1results) and signal handlers (G1/signals.py)    *)
(***************************************************************************)
\* upd_g1results on the fetched G1Results record st.
upd_g1results(proc_data, deleted, st) ==
    [g1_ea_dicts    |-> G1_upd_ea(G1_upd_ea_dicts(proc_data, st.g1_ea_dicts, deleted)),
     ro_base_dicts  |-> G1_upd_ro_base(G1_upd_ro_base_dicts(proc_data, st.ro_base_dicts,
                                                            deleted)),
     ro_ester_dicts |-> G1_upd_ro_ester(G1_upd_ro_ester_dicts(proc_data, st.ro_ester_dicts,
                                                              deleted))]

G1NoRow ==
    [exists |-> FALSE, raw_data |-> None, proc_data |-> G1_no_proc_data,
     file |-> None, is_active |-> FALSE, is_processed |-> FALSE]

\* The stored G1 records of one user experiment.
G1Store == [g1data |-> g1data, g1_ea_dicts |-> g1_ea_dicts,
            ro_base_dicts |-> ro_base_dicts, ro_ester_dicts |-> ro_ester_dicts]

G1EmptyStore == [g1data |-> [id \in Ids |-> G1NoRow], g1_ea_dicts |-> <<>>,
                 ro_base_dicts |-> <<>>, ro_ester_dicts |-> <<>>]

G1StoredIn(st) == {id \in Ids : st.g1data[id].exists}

G1Stored == G1StoredIn(G1Store)

\* The fields a save writes: all of them, or raw_data and file
\* (update_fields = ["raw_data", "file"]).
G1_written(db, instance, raw_only) ==
    IF raw_only
    THEN [db EXCEPT !.raw_data = instance.raw_data, !.file = instance.file]
    ELSE instance

\* The store with the given rows and results; proc_data is what
\* upd_g1results ran on, or would have run on had post_save not raised;
\* derived tells whether calc_proc_data was called.
G1_stored(rows, res, raised, proc_data, derived) ==
    [g1data         |-> rows,
     g1_ea_dicts    |-> res.g1_ea_dicts,
     ro_base_dicts  |-> res.ro_base_dicts,
     ro_ester_dicts |-> res.ro_ester_dicts,
     raised         |-> raised,
     proc_data      |-> proc_data,
     derived        |-> derived]

\* upd_proc_data on a data point that is not processed, once calc_proc_data
\* has returned: instance.save() writes the whole row and runs post_save,
\* hence upd_g1results, and upd_g1results of the outer post_save follows.
G1_processed(st, id, instance) ==
    G1_stored([st.g1data EXCEPT ![id] = instance],
              upd_g1results(instance.proc_data, FALSE,
                            upd_g1results(instance.proc_data, FALSE, st)),
              FALSE, instance.proc_data, TRUE)

\* upd_proc_data on a data point that is not processed and whose
\* calc_proc_data returned: the instance as it is when instance.save() is
\* called.
G1_mark_processed_unset(instance, new_proc_data) ==
    [instance EXCEPT !.proc_data = new_proc_data]

G1_mark_processed(instance, new_proc_data) ==
    [instance EXCEPT !.proc_data = new_proc_data, !.is_processed = TRUE]

\* G1Data_post_save after the write that left the rows as written.  When
\* calc_proc_data raises, that write is all that changed.
G1Data_post_save(st, written, id, instance) ==
    IF ~instance.is_processed
    THEN IF G1_calc_raises(instance.raw_data, instance.file)
         THEN G1_stored(written, st, TRUE, instance.proc_data, TRUE)
         ELSE G1_processed(st, id,
                           G1_mark_processed(instance,
                                             G1_calc_proc_data(instance.raw_data,
                                                               instance.file)))
    ELSE G1_stored(written, upd_g1results(instance.proc_data, FALSE, st), FALSE,
                   instance.proc_data, FALSE)

\* Model.save(): the write of the row, then G1Data_post_save.
G1Data_save(st, id, instance, raw_only) ==
    G1Data_post_save(st,
                     [st.g1data EXCEPT ![id] = G1_written(st.g1data[id], instance,
                                                          raw_only)],
                     id, instance)

\* Deletion of a row followed by G1Data_post_delete.
G1Data_post_delete(st, pk) ==
    G1_stored([st.g1data EXCEPT ![pk] = G1NoRow],
              upd_g1results(st.g1data[pk].proc_data, TRUE, st), FALSE,
              st.g1data[pk].proc_data, FALSE)

G1_next_id(st) == IF G1StoredIn(st) = {} THEN 1 ELSE SetMax(G1StoredIn(st)) + 1

\* The instance each view and method hands to save().
G1_created(st, form) ==
    [exists       |-> TRUE,
     raw_data     |-> G1_prepare_for_db_storage(form, G1_next_id(st), TRUE),
     proc_data    |-> G1_no_proc_data,
     file         |-> form.file,
     is_active    |-> TRUE,
     is_processed |-> FALSE]

G1_edited(st, pk, form) ==
    LET g1_data  == st.g1data[pk]
        metadata == G1_prepare_for_db_storage(form, pk, g1_data.is_active)
    IN  [g1_data EXCEPT !.raw_data = metadata,
                        !.is_processed = FALSE,
                        !.file = form.file]

G1_toggled(st, pk) ==
    LET g1data_ == st.g1data[pk]
        flag    == ~g1data_.is_active
    IN  [g1data_ EXCEPT !.is_active = flag,
                        !.is_processed = FALSE,
                        !.raw_data.is_active = <<flag>>]

G1_flagged(st, pk, flag) == [st.g1data[pk] EXCEPT !.is_active = flag]

G1_create(st, form) == G1Data_save(st, G1_next_id(st), G1_created(st, form), FALSE)

G1_edit(st, pk, form) == G1Data_save(st, pk, G1_edited(st, pk, form), TRUE)

G1_toggle(st, pk) == G1Data_save(st, pk, G1_toggled(st, pk), FALSE)

\* G1Data.enable() (flag TRUE) and G1Data.disable() (flag FALSE).
G1_set_active(st, pk, flag) == G1Data_save(st, pk, G1_flagged(st, pk, flag), FALSE)

\* Conductivity files: a straight decay, a decay that levels off, a
\* constant trace, and a rising trace (its first sample is already at
\* full conversion).
G1File(sigma) == [t |-> <<0, 1, 2, 3>>, sigma |-> sigma]

G1_straight == G1File(<<10, 8, 6, 4>>)
G1_curved   == G1File(<<10, 6, 5, 4>>)
G1_flat     == G1File(<<10, 10, 10, 10>>)
G1_rising   == G1File(<<4, 6, 8, 10>>)

G1Form(T_reaction, C_base, C_ester, file) ==
    [T_reaction |-> T_reaction, C_base |-> C_base, C_ester |-> C_ester, file |-> file]

G1Forms ==
    { G1Form(300, 10, 20, G1_straight), G1Form(310, 10, 20, G1_straight),
      G1Form(300, 15, 20, G1_straight), G1Form(300, 10, 30, G1_straight),
      G1Form(300, 10, 20, G1_curved),   G1Form(300, 10, 20, G1_flat),
      G1Form(300, 10, 20, G1_rising) }

RECURSIVE G1_uploaded(_)
G1_uploaded(forms) ==
    IF forms = <<>>
    THEN G1EmptyStore
    ELSE G1_create(G1_uploaded(SubSeq(forms, 1, Len(forms) - 1)), forms[Len(forms)])

G1Seeds ==
    << <<>>,
       <<G1Form(300, 10, 20, G1_straight), G1Form(310, 10, 20, G1_straight),
         G1Form(320, 10, 20, G1_straight)>>,
       <<G1Form(320, 10, 20, G1_straight), G1Form(330, 10, 20, G1_straight)>> >>

\* Events handled after the initial uploads: from the empty store, and from
\* a store that already holds data points.
MaxEvents == 3
MaxSeedEvents == 1

\* The two apps share no record, so a behaviour exercises one of them:
\* seed = <<app, n>> starts from the n-th initial store of that app.
EventLimit(app) ==
    IF seed[1] # app THEN 0
    ELSE IF seed[2] = 1 THEN MaxEvents ELSE MaxSeedEvents

(***************************************************************************)
(* G3: the simulation parameters (G3/utils.py upd_g3simulparams)           *)
(***************************************************************************)
\* The keys of raw_data and proc_data together, without id.
G3SimulKeys ==
    {"T_bath", "T_reactor", "M_catalyst", "V_flow", "A_reactant", "A_product",
     "is_active", "is_simulated", "tau", "p", "conversion"}

\* data = raw_data.copy(); data.update(proc_data); data.pop("id")
G3_simul_data(raw_data, proc_data) ==
    [k \in G3SimulKeys |-> IF k \in DOMAIN proc_data THEN proc_data[k] ELSE raw_data[k]]

\* The branch of upd_simul_dicts for an empty simul_dicts.
G3_simul_new(ref_id, data) ==
    [k \in G3SimulKeys \cup {"ref_ids", "updated"} |->
        IF k = "ref_ids" THEN <<ref_id>>
        ELSE IF k = "updated" THEN TRUE
        ELSE <<data[k]>>]

G3_simul_remove(sd, ref_id) ==
    IF Contains(sd.ref_ids, ref_id)
    THEN [k \in DOMAIN sd |->
            IF k = "updated" THEN TRUE ELSE Pop(sd[k], IndexOf(sd.ref_ids, ref_id))]
    ELSE sd

G3_simul_append(sd, ref_id, data) ==
    [k \in DOMAIN sd |->
        IF k = "ref_ids" THEN Append(sd.ref_ids, ref_id)
        ELSE IF k = "updated" THEN TRUE
        ELSE Append(sd[k], data[k])]

upd_simul_dicts(ref_id, data, sd, deleted) ==
    IF sd = None
    THEN IF data.is_active = FALSE THEN None ELSE G3_simul_new(ref_id, data)
    ELSE IF deleted \/ data.is_active = FALSE
         THEN G3_simul_remove(sd, ref_id)
         ELSE G3_simul_append(G3_simul_remove(sd, ref_id), ref_id, data)

\* Minimum number of distinct values of each variable for which the
\* simulation parameters are fitted.
G3_simul_min_unique == 3

\* upd_p_to_A_params: the factor, kept as the data it is fitted to.
upd_p_to_A_params(sd, sp) ==
    IF sd # None /\ sd.updated = TRUE
    THEN [sp EXCEPT !.p_to_A_params =
             IF Unique(Mags(sd.p)) >= G3_simul_min_unique
             THEN <<Mags(sd.p), Mags(sd.A_reactant)>>
             ELSE None]
    ELSE sp

\* upd_kinetic_params, which also clears the updated flag.
upd_kinetic_params(sd, sp) ==
    IF sd # None /\ sd.updated = TRUE
    THEN [sp EXCEPT !.kinetic_params =
             IF /\ Unique(Mags(sd.tau)) >= G3_simul_min_unique
                /\ Unique(Mags(sd.p)) >= G3_simul_min_unique
                /\ Unique(Mags(sd.T_reactor)) >= G3_simul_min_unique
             THEN <<Mags(sd.tau), Mags(sd.p), Mags(sd.T_reactor), Mags(sd.conversion)>>
             ELSE None]
    ELSE sp

G3_simul_clear_updated(sd) ==
    IF sd # None /\ sd.updated = TRUE
    THEN [k \in DOMAIN sd |-> IF k = "updated" THEN FALSE ELSE sd[k]]
    ELSE sd

\* The default of the field simul_dicts, an empty list.
EmptyList == <<"[]">>

\* simul_dicts.update and simul_dicts.get raise AttributeError on a list.
upd_g3simulparams_raises(rec) == rec.simul_dicts = EmptyList

\* The stored G3SimulParams record.
G3SimulParams == [simul_dicts |-> simul_dicts, simul_params |-> simul_params]

G3NoSimulParams ==
    [simul_dicts |-> None,
     simul_params |-> [p_to_A_params |-> None, kinetic_params |-> None]]

G3_simul_updated(sd, sp) ==
    [simul_dicts  |-> G3_simul_clear_updated(sd),
     simul_params |-> upd_kinetic_params(sd, upd_p_to_A_params(sd, sp))]

\* upd_g3simulparams on the fetched record.
upd_g3simulparams(raw_data, proc_data, deleted, rec) ==
    G3_simul_updated(upd_simul_dicts(proc_data.id, G3_simul_data(raw_data, proc_data),
                                     rec.simul_dicts, deleted),
                     rec.simul_params)

\* Variant of G3Data_post_save_simul: post_delete takes the data point out
\* of simul_dicts.
G3Data_post_save_simul_removing(op, res, id, rec) ==
    IF res.raised \/ upd_g3simulparams_raises(rec)
    THEN rec
    ELSE IF op = "delete"
    THEN [rec EXCEPT !.simul_dicts = IF @ = None THEN None ELSE G3_simul_remove(@, id)]
    ELSE upd_g3simulparams(res.g3data[id].raw_data, res.proc_data, FALSE, rec)

\* What G3Data_post_save and G3Data_post_delete leave of G3SimulParams:
\* post_save calls upd_g3simulparams after upd_g3results, unless that
\* raised; post_delete does not call it.  When upd_g3simulparams raises,
\* its save() is not reached.
G3Data_post_save_simul(op, res, id, rec) ==
    IF op = "delete" \/ res.raised \/ upd_g3simulparams_raises(rec)
    THEN rec
    ELSE upd_g3simulparams(res.g3data[id].raw_data, res.proc_data, FALSE, rec)

G3SimulCommit(op, id, res, rec) ==
    /\ simul_dicts' = rec.simul_dicts
    /\ simul_params' = rec.simul_params

G3Commit(op, id, res) ==
    /\ g3data' = res.g3data
    /\ rate_dicts' = res.rate_dicts
    /\ ea_dicts' = res.ea_dicts
    /\ ro_dicts' = res.ro_dicts
    /\ last' = [app |-> "G3", op |-> op, id |-> id, raised |-> res.raised,
                proc_data |-> res.proc_data, derived |-> res.derived,
                grouped |-> id \in Members(rate_dicts),
                simul_raised |-> /\ op # "delete" /\ ~res.raised
                                 /\ upd_g3simulparams_raises(G3SimulParams)]
    /\ G3SimulCommit(op, id, res, G3Data_post_save_simul(op, res, id, G3SimulParams))
    /\ nevents' = nevents + 1
    /\ UNCHANGED <<g1vars, seed, inflight, trial, call>>

\* G3_data_add: a new data point from the upload form.
G3_data_add ==
    /\ nevents < EventLimit("G3")
    /\ G3_next_id(G3Store) \in Ids
    /\ \E form \in G3Forms :
          G3Commit("add", G3_next_id(G3Store), G3_create(G3Store, form, FALSE))

\* G3_data_simulation, action "add-data": a new simulated data point.
G3_data_simulation ==
    /\ nevents < EventLimit("G3")
    /\ G3_next_id(G3Store) \in Ids
    /\ \E form \in G3Forms :
          G3Commit("simulate", G3_next_id(G3Store), G3_create(G3Store, form, TRUE))

\* G3_data_edit: new raw data for a stored data point.
G3_data_edit ==
    /\ nevents < EventLimit("G3")
    /\ \E pk \in G3Stored, form \in G3Forms :
          G3Commit("edit", pk, G3_edit(G3Store, pk, form))

\* G3_toggle_active: flips the flag of the row and of its raw data.
G3_toggle_active ==
    /\ nevents < EventLimit("G3")
    /\ \E pk \in G3Stored : G3Commit("toggle", pk, G3_toggle(G3Store, pk))

\* G3Data.enable()
G3Data_enable ==
    /\ nevents < EventLimit("G3")
    /\ \E pk \in G3Stored : G3Commit("enable", pk, G3_set_active(G3Store, pk, TRUE))

\* G3Data.disable()
G3Data_disable ==
    /\ nevents < EventLimit("G3")
    /\ \E pk \in G3Stored : G3Commit("disable", pk, G3_set_active(G3Store, pk, FALSE))

\* Deletion of a data point (admin), then G3Data_post_delete.
G3Data_delete ==
    /\ nevents < EventLimit("G3")
    /\ \E pk \in G3Stored : G3Commit("delete", pk, G3Data_post_delete(G3Store, pk))

G1Commit(op, id, res) ==
    /\ g1data' = res.g1data
    /\ g1_ea_dicts' = res.g1_ea_dicts
    /\ ro_base_dicts' = res.ro_base_dicts
    /\ ro_ester_dicts' = res.ro_ester_dicts
    /\ last' = [app |-> "G1", op |-> op, id |-> id, raised |-> res.raised,
                proc_data |-> res.proc_data, derived |-> res.derived,
                grouped |-> id \in Members(g1_ea_dicts) \cup Members(ro_base_dicts)
                                     \cup Members(ro_ester_dicts),
                simul_raised |-> FALSE]
    /\ nevents' = nevents + 1
    /\ UNCHANGED <<g3vars, seed, inflight, trial, simulvars, call>>

\* G1_data_add: a new data point with its conductivity file.
G1_data_add ==
    /\ nevents < EventLimit("G1")
    /\ G1_next_id(G1Store) \in Ids
    /\ \E form \in G1Forms :
          G1Commit("add", G1_next_id(G1Store), G1_create(G1Store, form))

\* G1_data_edit: new raw data and file for a stored data point.
G1_data_edit ==
    /\ nevents < EventLimit("G1")
    /\ \E pk \in G1Stored, form \in G1Forms :
          G1Commit("edit", pk, G1_edit(G1Store, pk, form))

\* G1_toggle_active
G1_toggle_active ==
    /\ nevents < EventLimit("G1")
    /\ \E pk \in G1Stored : G1Commit("toggle", pk, G1_toggle(G1Store, pk))

\* G1Data.enable()
G1Data_enable ==
    /\ nevents < EventLimit("G1")
    /\ \E pk \in G1Stored : G1Commit("enable", pk, G1_set_active(G1Store, pk, TRUE))

\* G1Data.disable()
G1Data_disable ==
    /\ nevents < EventLimit("G1")
    /\ \E pk \in G1Stored : G1Commit("disable", pk, G1_set_active(G1Store, pk, FALSE))

\* Deletion of a data point (admin), then G1Data_post_delete.
G1Data_delete ==
    /\ nevents < EventLimit("G1")
    /\ \E pk \in G1Stored : G1Commit("delete", pk, G1Data_post_delete(G1Store, pk))

Next ==
    \/ G3_data_add
    \/ G3_data_simulation
    \/ G3_data_edit
    \/ G3_toggle_active
    \/ G3Data_enable
    \/ G3Data_disable
    \/ G3Data_delete
    \/ G1_data_add
    \/ G1_data_edit
    \/ G1_toggle_active
    \/ G1Data_enable
    \/ G1Data_disable
    \/ G1Data_delete

\* No G1 save is being handled.
NoCall == [stack |-> <<>>, id |-> 0, instance |-> G1NoRow, raised |-> FALSE,
           calc |-> [raises |-> FALSE, proc_data |-> G1_no_proc_data],
           saves |-> 0, derivations |-> 0, updates |-> 0]

G3InitFrom(st) ==
    /\ g3data = st.g3data
    /\ rate_dicts = st.rate_dicts
    /\ ea_dicts = st.ea_dicts
    /\ ro_dicts = st.ro_dicts

G1InitFrom(st) ==
    /\ g1data = st.g1data
    /\ g1_ea_dicts = st.g1_ea_dicts
    /\ ro_base_dicts = st.ro_base_dicts
    /\ ro_ester_dicts = st.ro_ester_dicts

\* G3SimulParams after the listed uploads.
G3_simul_of_row(row, rec) == upd_g3simulparams(row.raw_data, row.proc_data, FALSE, rec)

RECURSIVE G3_simul_uploaded(_)
G3_simul_uploaded(forms) ==
    IF forms = <<>>
    THEN G3NoSimulParams
    ELSE G3_simul_of_row(G3_uploaded(forms).g3data[Len(forms)],
                         G3_simul_uploaded(SubSeq(forms, 1, Len(forms) - 1)))

G3SimulInitFrom(forms, default) ==
    /\ simul_dicts = IF default THEN EmptyList ELSE G3_simul_uploaded(forms).simul_dicts
    /\ simul_params = G3_simul_uploaded(forms).simul_params

Init ==
    /\ seed \in ({"G3"} \X DOMAIN G3Seeds) \cup ({"G1"} \X DOMAIN G1Seeds)
    /\ G3InitFrom(IF seed[1] = "G3" THEN G3_uploaded(G3Seeds[seed[2]]) ELSE G3EmptyStore)
    /\ G1InitFrom(IF seed[1] = "G1" THEN G1_uploaded(G1Seeds[seed[2]]) ELSE G1EmptyStore)
    /\ last = [app |-> "", op |-> "init", id |-> 0, raised |-> FALSE,
               proc_data |-> None, derived |-> FALSE, grouped |-> FALSE,
               simul_raised |-> FALSE]
    /\ nevents = 0
    /\ inflight = <<>>
    /\ trial = NoTrial
    /\ call = NoCall
    /\ G3SimulInitFrom(IF seed[1] = "G3" THEN G3Seeds[seed[2]] ELSE <<>>,
                       seed = <<"G3", G3DefaultSeed>>)

Spec == Init /\ [][Next]_vars


(***************************************************************************)
(* Requests handled concurrently.  A handler writes its row, and then runs *)
(* upd_g3results or upd_g1results: it fetches the results record, changes  *)
(* the copy it holds, and saves that copy.  Nothing locks the record, and  *)
(* every statement commits on its own, so the fetch and the save of two    *)
(* handlers interleave freely.                                             *)
(***************************************************************************)
\* The claim under study is about two requests.
Racers == {"first", "second"}

\* The G3Results and G1Results records as stored.
G3Results == [rate_dicts |-> rate_dicts, ea_dicts |-> ea_dicts, ro_dicts |-> ro_dicts]

G1Results == [g1_ea_dicts |-> g1_ea_dicts, ro_base_dicts |-> ro_base_dicts,
              ro_ester_dicts |-> ro_ester_dicts]

\* Variant of Results_save: the write does not reach the stored record.
Results_save_lost(stored, computed) == stored

\* g3results.save() and g1results.save(): every column of the row is
\* written from the copy the handler holds.
Results_save(stored, computed) == computed

\* A handler whose row is written: the instance the signal passes on, and
\* the number of times it will run upd_g3results or upd_g1results
\* (cycles).  held is the copy of the results record it works on, holding
\* says that it has fetched and not yet saved; the four instants are those
\* of its first and its latest fetch and save, 0 before the first.
Handler(app, id, proc_data, deleted, cycles, record) ==
    [app |-> app, id |-> id, proc_data |-> proc_data, deleted |-> deleted,
     cycles |-> cycles, runs |-> cycles, held |-> record, holding |-> FALSE,
     first_fetched_at |-> 0, fetched_at |-> 0,
     first_saved_at |-> 0, saved_at |-> 0]

\* The row write of a G3 request; post_save or post_delete then runs
\* upd_g3results once.
G3_request(id, res, deleted) ==
    /\ Len(inflight) < Cardinality(Racers)
    /\ g3data' = res.g3data
    /\ inflight' = Append(inflight,
                          Handler("G3", id, res.proc_data, deleted, 1, G3Results))
    /\ nevents' = nevents + 1
    /\ UNCHANGED <<rate_dicts, ea_dicts, ro_dicts, g1vars, last, seed, trial, simulvars, call>>

\* The row write of a G1 request.  post_save runs upd_g1results once when
\* the data point is processed already; when upd_proc_data derives, its
\* instance.save() runs post_save and so upd_g1results, and the outer
\* post_save runs it again; when calc_proc_data raises, it is never run.
G1_request(id, res, deleted) ==
    /\ Len(inflight) < Cardinality(Racers)
    /\ g1data' = res.g1data
    /\ inflight' = Append(inflight,
                          Handler("G1", id, res.proc_data, deleted,
                                  IF res.raised THEN 0
                                  ELSE IF res.derived THEN 2 ELSE 1,
                                  G1Results))
    /\ nevents' = nevents + 1
    /\ UNCHANGED <<g1_ea_dicts, ro_base_dicts, ro_ester_dicts, g3vars, last, seed, trial, simulvars, call>>

\* The forms of the concurrent requests.
G3RaceForms == {G3Form(300, 500, 1, 10), G3Form(300, 520, 1, 10)}

G1RaceForms == {G1Form(300, 10, 20, G1_straight), G1Form(310, 10, 20, G1_straight)}

G3_add_request ==
    /\ seed[1] = "G3"
    /\ G3_next_id(G3Store) \in Ids
    /\ \E form \in G3RaceForms :
          G3_request(G3_next_id(G3Store), G3_create(G3Store, form, FALSE), FALSE)

G3_delete_request ==
    /\ seed[1] = "G3"
    /\ \E pk \in G3Stored : G3_request(pk, G3Data_post_delete(G3Store, pk), TRUE)

G1_add_request ==
    /\ seed[1] = "G1"
    /\ G1_next_id(G1Store) \in Ids
    /\ \E form \in G1RaceForms :
          G1_request(G1_next_id(G1Store), G1_create(G1Store, form), FALSE)

G1_delete_request ==
    /\ seed[1] = "G1"
    /\ \E pk \in G1Stored : G1_request(pk, G1Data_post_delete(G1Store, pk), TRUE)

\* The handler after G3Results.objects.get and the in-memory updates, which
\* gave computed; a TypeError of perform_rate_analysis ends the handler.
G3_fetched(h, computed, now) ==
    IF computed.raised
    THEN [h EXCEPT !.cycles = 0]
    ELSE [h EXCEPT !.held = [rate_dicts |-> computed.rate_dicts,
                             ea_dicts   |-> computed.ea_dicts,
                             ro_dicts   |-> computed.ro_dicts],
                   !.holding = TRUE, !.fetched_at = now,
                   !.first_fetched_at = IF @ = 0 THEN now ELSE @]

\* upd_g3results up to save(), on the record as stored now.
G3_fetch ==
    \E n \in DOMAIN inflight :
        /\ inflight[n].app = "G3"
        /\ inflight[n].cycles > 0
        /\ ~inflight[n].holding
        /\ inflight' = [inflight EXCEPT ![n] =
                           G3_fetched(@, upd_g3results(@.proc_data, @.deleted,
                                                       rate_dicts, ea_dicts, ro_dicts),
                                      nevents + 1)]
        /\ nevents' = nevents + 1
        /\ UNCHANGED <<g3vars, g1vars, last, seed, trial, simulvars, call>>

\* The handler after a save().
Saved(h, now) ==
    [h EXCEPT !.holding = FALSE, !.cycles = @ - 1, !.saved_at = now,
              !.first_saved_at = IF @ = 0 THEN now ELSE @]

G3_put(record) ==
    /\ rate_dicts' = record.rate_dicts
    /\ ea_dicts' = record.ea_dicts
    /\ ro_dicts' = record.ro_dicts

\* g3results.save()
G3_save ==
    \E n \in DOMAIN inflight :
        /\ inflight[n].app = "G3"
        /\ inflight[n].holding
        /\ G3_put(Results_save(G3Results, inflight[n].held))
        /\ inflight' = [inflight EXCEPT ![n] = Saved(@, nevents + 1)]
        /\ nevents' = nevents + 1
        /\ UNCHANGED <<g3data, g1vars, last, seed, trial, simulvars, call>>

\* The handler after G1Results.objects.get and the in-memory updates, which
\* gave computed.
G1_fetched(h, computed, now) ==
    [h EXCEPT !.held = computed, !.holding = TRUE, !.fetched_at = now,
              !.first_fetched_at = IF @ = 0 THEN now ELSE @]

\* upd_g1results up to save(), on the record as stored now.
G1_fetch ==
    \E n \in DOMAIN inflight :
        /\ inflight[n].app = "G1"
        /\ inflight[n].cycles > 0
        /\ ~inflight[n].holding
        /\ inflight' = [inflight EXCEPT ![n] =
                           G1_fetched(@, upd_g1results(@.proc_data, @.deleted,
                                                       G1Results),
                                      nevents + 1)]
        /\ nevents' = nevents + 1
        /\ UNCHANGED <<g3vars, g1vars, last, seed, trial, simulvars, call>>

G1_put(record) ==
    /\ g1_ea_dicts' = record.g1_ea_dicts
    /\ ro_base_dicts' = record.ro_base_dicts
    /\ ro_ester_dicts' = record.ro_ester_dicts

\* g1results.save()
G1_save ==
    \E n \in DOMAIN inflight :
        /\ inflight[n].app = "G1"
        /\ inflight[n].holding
        /\ G1_put(Results_save(G1Results, inflight[n].held))
        /\ inflight' = [inflight EXCEPT ![n] = Saved(@, nevents + 1)]
        /\ nevents' = nevents + 1
        /\ UNCHANGED <<g1data, g3vars, last, seed, trial, simulvars, call>>

RaceNext ==
    \/ G3_add_request
    \/ G3_delete_request
    \/ G3_fetch
    \/ G3_save
    \/ G1_add_request
    \/ G1_delete_request
    \/ G1_fetch
    \/ G1_save

SpecRace == Init /\ [][RaceNext]_vars


(***************************************************************************)
(* calc_init_slope on its own: one call on arguments drawn from the x      *)
(* that are times in increasing order and the y over a few values.         *)
(***************************************************************************)
\* Largest number of points of a call.
MaxPoints == 4

SlopeYValues == {0, 1, 3, 6, 9, 12}

\* The times 0, 1, 2, ... and 1, 2, 3, ...
SlopeXs(n) == {[i \in 1..n |-> i - 1 + first] : first \in {0, 1}}

SlopeTrials ==
    UNION {[x : SlopeXs(n), y : [1..n -> SlopeYValues], min_points : 0..n,
            called : {FALSE}, fit : {NoFit}] : n \in 1..MaxPoints}

calc_init_slope_call ==
    /\ ~trial.called
    /\ trial' = [trial EXCEPT !.called = TRUE,
                              !.fit = calc_init_slope(trial.x, trial.y, trial.min_points)]
    /\ UNCHANGED <<g3vars, g1vars, last, nevents, seed, inflight, simulvars, call>>

SlopeNext == calc_init_slope_call

SlopeInit ==
    /\ seed = <<"G1", 1>>
    /\ G3InitFrom(G3EmptyStore)
    /\ G1InitFrom(G1EmptyStore)
    /\ last = [app |-> "", op |-> "init", id |-> 0, raised |-> FALSE,
               proc_data |-> None, derived |-> FALSE, grouped |-> FALSE,
               simul_raised |-> FALSE]
    /\ nevents = 0
    /\ inflight = <<>>
    /\ trial \in SlopeTrials
    /\ call = NoCall
    /\ G3SimulInitFrom(<<>>, FALSE)

SpecSlope == SlopeInit /\ [][SlopeNext]_vars


(***************************************************************************)
(* One G1 save, statement by statement.  save() writes the row and sends   *)
(* post_save; G1Data_post_save calls upd_proc_data and then                *)
(* upd_g1results; upd_proc_data calls instance.save(), which runs          *)
(* G1Data_post_save again before it returns.  The stack holds, for every   *)
(* G1Data_post_save that has not returned, the call it is about to make.   *)
(* calc_proc_data is a function of the raw_data and the file of the        *)
(* instance, which no handler changes: what it does when upd_proc_data     *)
(* calls it is fixed when save() is called, and is kept with the call.     *)
(***************************************************************************)
\* Saves requested in a behaviour, and the deepest stack the model follows.
MaxSaves == 1
MaxDepth == 4

Top(stack) == stack[Len(stack)]

\* calc_proc_data on the instance: whether it raises, and what it returns.
G1_calc(instance) ==
    IF G1_calc_raises(instance.raw_data, instance.file)
    THEN [raises |-> TRUE, proc_data |-> G1_no_proc_data]
    ELSE [raises |-> FALSE,
          proc_data |-> G1_calc_proc_data(instance.raw_data, instance.file)]

G1Saves(st) ==
    {[id |-> G1_next_id(st), instance |-> G1_created(st, form), raw_only |-> FALSE] :
        form \in {f \in G1Forms : G1_next_id(st) \in Ids}}
    \cup {[id |-> pk, instance |-> G1_edited(st, pk, form), raw_only |-> TRUE] :
            pk \in G1StoredIn(st), form \in G1Forms}
    \cup {[id |-> pk, instance |-> G1_toggled(st, pk), raw_only |-> FALSE] :
            pk \in G1StoredIn(st)}
    \cup {[id |-> pk, instance |-> G1_flagged(st, pk, flag), raw_only |-> FALSE] :
            pk \in G1StoredIn(st), flag \in BOOLEAN}

\* save() called by a view or by enable() or disable(): the row is written
\* and G1Data_post_save is entered.
G1Data_save_called ==
    /\ call.stack = <<>>
    /\ nevents < MaxSaves
    /\ \E s \in G1Saves(G1Store) :
          /\ g1data' = [g1data EXCEPT ![s.id] = G1_written(g1data[s.id], s.instance,
                                                          s.raw_only)]
          /\ call' = [stack |-> <<"upd_proc_data">>, id |-> s.id,
                      instance |-> s.instance, raised |-> FALSE,
                      calc |-> G1_calc(s.instance),
                      saves |-> 1, derivations |-> 0, updates |-> 0]
    /\ nevents' = nevents + 1
    /\ UNCHANGED <<g1_ea_dicts, ro_base_dicts, ro_ester_dicts, g3vars, last, seed,
                   inflight, trial, simulvars>>

\* upd_proc_data on the instance: raises tells whether calc_proc_data
\* raises, and processed is the instance handed to instance.save().  An
\* exception of calc_proc_data leaves every handler on the stack.
upd_proc_data_on(instance, raises, processed) ==
    IF instance.is_processed
    THEN /\ call' = [call EXCEPT !.stack[Len(call.stack)] = "upd_g1results"]
         /\ UNCHANGED g1data
    ELSE IF raises
         THEN /\ call' = [call EXCEPT !.stack = <<>>, !.raised = TRUE,
                                      !.derivations = @ + 1]
              /\ UNCHANGED g1data
         ELSE /\ Len(call.stack) < MaxDepth
              /\ g1data' = [g1data EXCEPT ![call.id] = processed]
              /\ call' = [call EXCEPT
                            !.instance = processed,
                            !.stack = Append([call.stack EXCEPT
                                                ![Len(call.stack)] = "upd_g1results"],
                                             "upd_proc_data"),
                            !.saves = @ + 1,
                            !.derivations = @ + 1]

\* upd_proc_data in the innermost G1Data_post_save.
upd_proc_data ==
    /\ call.stack # <<>>
    /\ Top(call.stack) = "upd_proc_data"
    /\ upd_proc_data_on(call.instance, call.calc.raises,
                        G1_mark_processed(call.instance, call.calc.proc_data))
    /\ UNCHANGED <<g1_ea_dicts, ro_base_dicts, ro_ester_dicts, g3vars, last, nevents,
                   seed, inflight, trial, simulvars>>

\* upd_g1results in the innermost G1Data_post_save, which then returns.
upd_g1results_called ==
    /\ call.stack # <<>>
    /\ Top(call.stack) = "upd_g1results"
    /\ LET res == upd_g1results(call.instance.proc_data, FALSE, G1Store)
       IN  /\ g1_ea_dicts' = res.g1_ea_dicts
           /\ ro_base_dicts' = res.ro_base_dicts
           /\ ro_ester_dicts' = res.ro_ester_dicts
    /\ call' = [call EXCEPT !.stack = SubSeq(call.stack, 1, Len(call.stack) - 1),
                            !.updates = @ + 1]
    /\ UNCHANGED <<g1data, g3vars, last, nevents, seed, inflight, trial, simulvars>>

SaveNext ==
    \/ G1Data_save_called
    \/ upd_proc_data
    \/ upd_g1results_called

SaveInit ==
    /\ seed \in {"G1"} \X DOMAIN G1Seeds
    /\ G3InitFrom(G3EmptyStore)
    /\ G1InitFrom(G1_uploaded(G1Seeds[seed[2]]))
    /\ last = [app |-> "", op |-> "init", id |-> 0, raised |-> FALSE,
               proc_data |-> None, derived |-> FALSE, grouped |-> FALSE,
               simul_raised |-> FALSE]
    /\ nevents = 0
    /\ inflight = <<>>
    /\ trial = NoTrial
    /\ call = NoCall
    /\ G3SimulInitFrom(<<>>, FALSE)

\* A handler that has been called runs: each of its statements is taken.
SpecSave ==
    SaveInit /\ [][SaveNext]_vars /\ WF_vars(upd_proc_data) /\ WF_vars(upd_g1results_called)


(***************************************************************************)
(* Properties                                                              *)
(***************************************************************************)
\* The six result families, in a fixed order.
Families == <<rate_dicts, ea_dicts, ro_dicts, g1_ea_dicts, ro_base_dicts, ro_ester_dicts>>

G3RateAligned(d) ==
    /\ Len(d.tau) = Len(d.ref_ids)
    /\ Len(d.conversion) = Len(d.ref_ids)
    /\ Len(d.is_active) = Len(d.ref_ids)
    /\ Len(d.is_simulated) = Len(d.ref_ids)

\* A group whose columns are its independent variable x and rate.
PairAligned(d, x) == Len(x) = Len(d.ref_ids) /\ Len(d.rate) = Len(d.ref_ids)

ColumnsAligned ==
    /\ \A i \in DOMAIN rate_dicts : G3RateAligned(rate_dicts[i])
    /\ \A i \in DOMAIN ea_dicts : PairAligned(ea_dicts[i], ea_dicts[i].T_reactor)
    /\ \A i \in DOMAIN ro_dicts : PairAligned(ro_dicts[i], ro_dicts[i].p)
    /\ \A i \in DOMAIN g1_ea_dicts : PairAligned(g1_ea_dicts[i], g1_ea_dicts[i].T_reaction)
    /\ \A i \in DOMAIN ro_base_dicts : PairAligned(ro_base_dicts[i], ro_base_dicts[i].C_base)
    /\ \A i \in DOMAIN ro_ester_dicts :
          PairAligned(ro_ester_dicts[i], ro_ester_dicts[i].C_ester)

\* The rows of a group: a member id with the entries at its position.
G3RateEntries(d) ==
    {<<d.ref_ids[i], d.tau[i], d.conversion[i], d.is_active[i], d.is_simulated[i]>> :
        i \in DOMAIN d.ref_ids}

PairEntries(d, x) == {<<d.ref_ids[i], x[i], d.rate[i]>> : i \in DOMAIN d.ref_ids}

\* Every row of a group after the step was a row of the same group before
\* it, or is the row of the data point the handler worked on.
EntriesKept(old, new, entries(_), contributed) ==
    \A i \in DOMAIN new : \A e \in entries(new[i]) :
        \/ \E j \in DOMAIN old : old[j].id = new[i].id /\ e \in entries(old[j])
        \/ e = contributed

G3EaEntries(d) == PairEntries(d, d.T_reactor)
G3RoEntries(d) == PairEntries(d, d.p)
G1EaEntries(d) == PairEntries(d, d.T_reaction)
G1RoBaseEntries(d) == PairEntries(d, d.C_base)
G1RoEsterEntries(d) == PairEntries(d, d.C_ester)

FirstLevelEntriesKept ==
    /\ EntriesKept(rate_dicts, rate_dicts', G3RateEntries,
                   <<last'.proc_data.id, last'.proc_data.tau, last'.proc_data.conversion,
                     last'.proc_data.is_active, last'.proc_data.is_simulated>>)
    /\ EntriesKept(g1_ea_dicts, g1_ea_dicts', G1EaEntries,
                   <<last'.proc_data.id, last'.proc_data.T_reaction, last'.proc_data.rate>>)
    /\ EntriesKept(ro_base_dicts, ro_base_dicts', G1RoBaseEntries,
                   <<last'.proc_data.id, last'.proc_data.C_base, last'.proc_data.rate>>)
    /\ EntriesKept(ro_ester_dicts, ro_ester_dicts', G1RoEsterEntries,
                   <<last'.proc_data.id, last'.proc_data.C_ester, last'.proc_data.rate>>)

\* In the second level of G3 the members are rate dicts: the row of member
\* r holds the independent variable and the rate of rate dict r.
SecondLevelEntries ==
    /\ \A i \in DOMAIN ea_dicts : \A e \in G3EaEntries(ea_dicts[i]) :
          \E j \in DOMAIN rate_dicts :
              e = <<rate_dicts[j].id, rate_dicts[j].T_reactor, rate_dicts[j].rate>>
    /\ \A i \in DOMAIN ro_dicts : \A e \in G3RoEntries(ro_dicts[i]) :
          \E j \in DOMAIN rate_dicts :
              e = <<rate_dicts[j].id, rate_dicts[j].p, rate_dicts[j].rate>>

\* C1 (column alignment): in every group of every family each list-valued
\* column is as long as ref_ids, and the entry at position i of a column is
\* the value contributed by member ref_ids[i]: an event leaves the rows of
\* the other members as they were, the row of its own data point holds the
\* values of the proc_data it handled, and the row of a rate dict in an Ea
\* or reaction order group holds that rate dict's values.
C1_ColumnAlignment ==
    /\ [](ColumnsAligned /\ SecondLevelEntries)
    /\ [][FirstLevelEntriesKept]_vars

\* C1 witness: a member was taken out of a rate group that still holds two
\* members with different space times.
C1_Witness ==
    /\ last.app = "G3" /\ last.op \in {"delete", "toggle"} /\ last.grouped
    /\ \E i \in DOMAIN rate_dicts :
          Len(rate_dicts[i].ref_ids) = 2 /\ Unique(rate_dicts[i].tau) = 2

\* No member id occurs twice in the ref_ids of one family.
NoDuplicate(ds) ==
    \A i, j \in DOMAIN ds :
        \A k \in DOMAIN ds[i].ref_ids, l \in DOMAIN ds[j].ref_ids :
            (i # j \/ k # l) => ds[i].ref_ids[k] # ds[j].ref_ids[l]

\* C2 (membership exclusivity): within one family a member id occurs in the
\* ref_ids of at most one group, and at most once there.
C2_MembershipExclusive == \A f \in DOMAIN Families : NoDuplicate(Families[f])

\* C2 witness: an edit moved a grouped data point to another rate group,
\* leaving its former group empty.
C2_Witness ==
    /\ last.app = "G3" /\ last.op = "edit" /\ last.grouped /\ ~last.raised
    /\ last.id \in Members(rate_dicts)
    /\ \E i \in DOMAIN rate_dicts : rate_dicts[i].ref_ids = <<>>

IdsDistinct(ds) == \A i, j \in DOMAIN ds : i # j => ds[i].id # ds[j].id

\* The groups of a family keep their ids, and each group appended takes
\* 1 + the largest id of the groups before it (1 when there is none).
IdsStep(old, new) ==
    /\ Len(new) >= Len(old)
    /\ \A i \in DOMAIN old : new[i].id = old[i].id
    /\ \A i \in (Len(old) + 1)..Len(new) :
          new[i].id = 1 + (IF i = 1 THEN 0
                           ELSE SetMax({new[j].id : j \in 1..(i - 1)}))

\* C3 (group ids): a new group gets 1 + the maximum id of its family (1 in
\* an empty family), ids within a family are pairwise distinct, and the id
\* of a group stays with that group when it empties, so that it is never
\* given to another group.
C3_GroupIds ==
    /\ [](\A f \in DOMAIN Families : IdsDistinct(Families[f]))
    /\ [][/\ IdsStep(rate_dicts, rate_dicts')
          /\ IdsStep(ea_dicts, ea_dicts')
          /\ IdsStep(ro_dicts, ro_dicts')
          /\ IdsStep(g1_ea_dicts, g1_ea_dicts')
          /\ IdsStep(ro_base_dicts, ro_base_dicts')
          /\ IdsStep(ro_ester_dicts, ro_ester_dicts')]_vars

\* C3 witness: a family holds an emptied group and, behind it, a group that
\* the same edit created with the next id.
C3_Witness ==
    /\ last.op = "edit" /\ last.grouped /\ ~last.raised
    /\ \E f \in DOMAIN Families : \E i, j \in DOMAIN Families[f] :
          /\ i < j
          /\ Families[f][i].ref_ids = <<>>
          /\ j = Len(Families[f])
          /\ Families[f][j].ref_ids # <<>>
          /\ Families[f][j].id = Families[f][i].id + 1

\* The removal pass of each family, for an id that no group of the family
\* holds, returns the family as it was.
RemovalPassIdle ==
    \A id \in Ids :
        /\ id \notin Members(rate_dicts)
              => G3_rate_removal_pass(rate_dicts, id) = rate_dicts
        /\ id \notin Members(ea_dicts)
              => [i \in DOMAIN ea_dicts |-> G3_ea_remove(ea_dicts[i], id)] = ea_dicts
        /\ id \notin Members(ro_dicts)
              => [i \in DOMAIN ro_dicts |-> G3_ro_remove(ro_dicts[i], id)] = ro_dicts
        /\ id \notin Members(g1_ea_dicts)
              => [i \in DOMAIN g1_ea_dicts |-> G1_ea_remove(g1_ea_dicts[i], id)]
                    = g1_ea_dicts
        /\ id \notin Members(ro_base_dicts)
              => [i \in DOMAIN ro_base_dicts |-> G1_ro_base_remove(ro_base_dicts[i], id)]
                    = ro_base_dicts
        /\ id \notin Members(ro_ester_dicts)
              => [i \in DOMAIN ro_ester_dicts |-> G1_ro_ester_remove(ro_ester_dicts[i], id)]
                    = ro_ester_dicts

\* A Deleted event for a data point that is in no group leaves every family
\* as it was and does not raise.
DeletedAbsentIdle ==
    (last'.op = "delete" /\ ~last'.grouped)
        => /\ UNCHANGED <<rate_dicts, ea_dicts, ro_dicts>>
           /\ UNCHANGED <<g1_ea_dicts, ro_base_dicts, ro_ester_dicts>>
           /\ ~last'.raised

\* C4 (idempotent removal): a Deleted event, and the removal pass of any
\* event, for an id that is in no group's ref_ids changes no group of any
\* family (no list, no fit field, no updated flag), creates no group and
\* raises no error.
C4_IdempotentRemoval ==
    /\ []RemovalPassIdle
    /\ [][DeletedAbsentIdle]_vars

\* C4 witness: a data point that was in no group has been deleted while
\* another data point is grouped.
C4_Witness ==
    /\ last.op = "delete" /\ ~last.grouped
    /\ \E f \in DOMAIN Families : Members(Families[f]) # {}

\* C5 (inactive observations are excluded): no stored data point whose
\* is_active flag is false is in the ref_ids of a group, whichever
\* operation deactivated it.
C5_InactiveExcluded ==
    /\ \A id \in G3Stored : ~g3data[id].is_active => id \notin Members(rate_dicts)
    /\ \A id \in G1Stored :
          ~g1data[id].is_active
              => id \notin Members(g1_ea_dicts) \cup Members(ro_base_dicts)
                              \cup Members(ro_ester_dicts)

\* C6 (a null grouped value means un-grouped): after a Created or Updated
\* event for a data point whose tau or conversion (G3) or rate (G1) is null,
\* the data point is in no group of the family.
C6_NullValueUngrouped ==
    /\ (/\ last.app = "G3" /\ last.op # "delete"
        /\ (last.proc_data.tau = None \/ last.proc_data.conversion = None))
          => last.id \notin Members(rate_dicts)
    /\ (last.app = "G1" /\ last.op # "delete" /\ last.proc_data.rate = None)
          => last.id \notin Members(g1_ea_dicts) \cup Members(ro_base_dicts)
                               \cup Members(ro_ester_dicts)

Without(s, x) == SelectSeq(s, LAMBDA y : y # x)

\* What C7 asks of one family after an event has inserted the data point
\* id: eq(d) tells whether the key of group d equals the data point's key,
\* row(d, i) is the row of d at position i and contributed the row the
\* data point brings.
InsertedByKey(old, new, id, eq(_), row(_, _), contributed) ==
    IF \E i \in DOMAIN old : eq(old[i])
    THEN /\ Len(new) = Len(old)
         /\ \A i \in DOMAIN old :
               IF eq(old[i])
               THEN /\ new[i].ref_ids = Append(Without(old[i].ref_ids, id), id)
                    /\ row(new[i], Len(new[i].ref_ids)) = contributed
               ELSE id \notin Range(new[i].ref_ids)
    ELSE /\ Len(new) = Len(old) + 1
         /\ eq(new[Len(new)])
         /\ new[Len(new)].ref_ids = <<id>>
         /\ row(new[Len(new)], 1) = contributed
         /\ \A i \in DOMAIN old : id \notin Range(new[i].ref_ids)

G3RateRow(d, i) == <<d.tau[i], d.conversion[i], d.is_active[i], d.is_simulated[i]>>

\* The group that takes the data point leaves the membership step with
\* updated = TRUE.
TakerUpdated(regrouped, id) ==
    \A i \in DOMAIN regrouped :
        id \in Range(regrouped[i].ref_ids) => regrouped[i].updated = TRUE

G3InsertedByKey ==
    /\ InsertedByKey(rate_dicts, rate_dicts', last'.id,
                     LAMBDA d : G3_rate_matches(d, last'.proc_data), G3RateRow,
                     <<last'.proc_data.tau, last'.proc_data.conversion,
                       last'.proc_data.is_active, last'.proc_data.is_simulated>>)
    /\ TakerUpdated(G3_upd_rate_dicts(last'.proc_data, rate_dicts, FALSE), last'.id)

G1InsertedByKey ==
    /\ InsertedByKey(g1_ea_dicts, g1_ea_dicts', last'.id,
                     LAMBDA d : G1_ea_matches(d, last'.proc_data),
                     LAMBDA d, i : <<d.T_reaction[i], d.rate[i]>>,
                     <<last'.proc_data.T_reaction, last'.proc_data.rate>>)
    /\ TakerUpdated(G1_upd_ea_dicts(last'.proc_data, g1_ea_dicts, FALSE), last'.id)
    /\ InsertedByKey(ro_base_dicts, ro_base_dicts', last'.id,
                     LAMBDA d : G1_ro_base_matches(d, last'.proc_data),
                     LAMBDA d, i : <<d.C_base[i], d.rate[i]>>,
                     <<last'.proc_data.C_base, last'.proc_data.rate>>)
    /\ TakerUpdated(G1_upd_ro_base_dicts(last'.proc_data, ro_base_dicts, FALSE), last'.id)
    /\ InsertedByKey(ro_ester_dicts, ro_ester_dicts', last'.id,
                     LAMBDA d : G1_ro_ester_matches(d, last'.proc_data),
                     LAMBDA d, i : <<d.C_ester[i], d.rate[i]>>,
                     <<last'.proc_data.C_ester, last'.proc_data.rate>>)
    /\ TakerUpdated(G1_upd_ro_ester_dicts(last'.proc_data, ro_ester_dicts, FALSE),
                    last'.id)

\* C7 (insertion by exact key): after a Created or Updated event for a data
\* point that is active and successfully derived, a group whose key equals
\* the data point's key on every key field, if there is one, has the id and
\* its column values appended and no group is created; otherwise exactly
\* one group with single-element columns, marked updated, is appended to
\* the family; the data point is in no group with another key.
C7_InsertionByKey ==
    [][/\ (/\ last'.app = "G3" /\ last'.op # "delete"
           /\ g3data'[last'.id].is_active
           /\ last'.proc_data.tau # None /\ last'.proc_data.conversion # None)
              => G3InsertedByKey
       /\ (/\ last'.app = "G1" /\ last'.op # "delete" /\ ~last'.raised
           /\ g1data'[last'.id].is_active
           /\ last'.proc_data.rate # None)
              => G1InsertedByKey]_vars

\* A Deleted event: the handler works on the stored proc_data, the data
\* point is in no group afterwards and no family has gained a group.
DeletedRemoved ==
    last'.op = "delete"
        => /\ last'.app = "G3"
                 => /\ last'.proc_data = g3data[last'.id].proc_data
                    /\ last'.id \notin Members(rate_dicts')
           /\ last'.app = "G1"
                 => /\ last'.proc_data = g1data[last'.id].proc_data
                    /\ last'.id \notin Members(g1_ea_dicts') \cup Members(ro_base_dicts')
                                          \cup Members(ro_ester_dicts')
           /\ Len(rate_dicts') = Len(rate_dicts)
           /\ Len(ea_dicts') = Len(ea_dicts)
           /\ Len(ro_dicts') = Len(ro_dicts)
           /\ Len(g1_ea_dicts') = Len(g1_ea_dicts)
           /\ Len(ro_base_dicts') = Len(ro_base_dicts)
           /\ Len(ro_ester_dicts') = Len(ro_ester_dicts)

\* C8 (a Deleted event takes the removal-only path): derivation is not run,
\* the deleted data point's id is in no group's ref_ids afterwards and no
\* group has been created in any family.
C8_DeletedRemovalOnly == [][DeletedRemoved]_vars

\* C8 witness: a grouped data point has been deleted.
C8_Witness == last.op = "delete" /\ last.grouped /\ ~last.raised

\* The fit fields and the error of the groups with n distinct values of the
\* independent variable satisfy P(coefficient, r_squared, error).
Threshold(n, P(_, _, _)) ==
    /\ \A i \in DOMAIN rate_dicts :
          Unique(rate_dicts[i].tau) = n
              => P(rate_dicts[i].rate, rate_dicts[i].r_squared, rate_dicts[i].error)
    /\ \A i \in DOMAIN ea_dicts :
          Unique(ea_dicts[i].T_reactor) = n
              => P(ea_dicts[i].Ea, ea_dicts[i].r_squared, ea_dicts[i].error)
    /\ \A i \in DOMAIN ro_dicts :
          Unique(ro_dicts[i].p) = n
              => P(ro_dicts[i].r_order, ro_dicts[i].r_squared, ro_dicts[i].error)
    /\ \A i \in DOMAIN g1_ea_dicts :
          Unique(g1_ea_dicts[i].T_reaction) = n
              => P(g1_ea_dicts[i].Ea, g1_ea_dicts[i].r_squared, g1_ea_dicts[i].error)
    /\ \A i \in DOMAIN ro_base_dicts :
          Unique(ro_base_dicts[i].C_base) = n
              => P(ro_base_dicts[i].ro_base, ro_base_dicts[i].r_squared,
                   ro_base_dicts[i].error)
    /\ \A i \in DOMAIN ro_ester_dicts :
          Unique(ro_ester_dicts[i].C_ester) = n
              => P(ro_ester_dicts[i].ro_ester, ro_ester_dicts[i].r_squared,
                   ro_ester_dicts[i].error)

\* C9 (threshold policy, one distinct value): a group whose members have
\* exactly one distinct value of the independent variable has its fit
\* fields null and a non-null error, in every family.
C9_OneValueNoFit ==
    Threshold(1, LAMBDA coefficient, r_squared, error :
                    coefficient = None /\ r_squared = None /\ error # None)

Fitted(d, coefficient) ==
    /\ coefficient # None
    /\ d.r_squared # None
    /\ d.plotdata # None
    /\ d.fitdata # None

\* A group with three or more distinct values x is fitted without error.
FittedClean(d, x, coefficient) ==
    Unique(x) >= 3 => Fitted(d, coefficient) /\ d.error = None

\* C11 (threshold policy, three or more distinct values): a group whose
\* members have at least three distinct values of the independent variable
\* has non-null fit coefficient, r_squared, plot series and fit series and
\* a null error, in every family.
C11_ThreeValuesClean ==
    /\ \A i \in DOMAIN rate_dicts :
          FittedClean(rate_dicts[i], rate_dicts[i].tau, rate_dicts[i].rate)
    /\ \A i \in DOMAIN ea_dicts :
          /\ FittedClean(ea_dicts[i], ea_dicts[i].T_reactor, ea_dicts[i].Ea)
          /\ FittedClean(ea_dicts[i], ea_dicts[i].T_reactor, ea_dicts[i].A_app)
    /\ \A i \in DOMAIN ro_dicts :
          FittedClean(ro_dicts[i], ro_dicts[i].p, ro_dicts[i].r_order)
    /\ \A i \in DOMAIN g1_ea_dicts :
          /\ FittedClean(g1_ea_dicts[i], g1_ea_dicts[i].T_reaction, g1_ea_dicts[i].Ea)
          /\ FittedClean(g1_ea_dicts[i], g1_ea_dicts[i].T_reaction, g1_ea_dicts[i].A_app)
    /\ \A i \in DOMAIN ro_base_dicts :
          FittedClean(ro_base_dicts[i], ro_base_dicts[i].C_base, ro_base_dicts[i].ro_base)
    /\ \A i \in DOMAIN ro_ester_dicts :
          FittedClean(ro_ester_dicts[i], ro_ester_dicts[i].C_ester,
                      ro_ester_dicts[i].ro_ester)

\* C11 witness: an upload gave a rate group its third space time, and the
\* Ea group this rate group thereby joined its third temperature; both
\* carried the two-value message before (the seeded store holds them so).
C11_Witness ==
    /\ last.app = "G3" /\ last.op = "add" /\ ~last.raised
    /\ \E i \in DOMAIN ea_dicts, j \in DOMAIN rate_dicts :
          /\ Unique(rate_dicts[j].tau) = 3
          /\ rate_dicts[j].ref_ids[Len(rate_dicts[j].ref_ids)] = last.id
          /\ Unique(ea_dicts[i].T_reactor) = 3
          /\ ea_dicts[i].ref_ids[Len(ea_dicts[i].ref_ids)] = rate_dicts[j].id
          /\ ea_dicts[i].error = None
          /\ rate_dicts[j].error = None

\* A group with fewer than two distinct values x has no derived output and
\* is not marked updated.
Unfitted(d, x, coefficient) ==
    Unique(x) < 2
        => /\ coefficient = None
           /\ d.r_squared = None
           /\ d.plotdata = None
           /\ d.fitdata = None
           /\ d.updated = FALSE

\* The second-level families of G3 and the families of G1 below the fit
\* threshold.
UnfittedBelowTwo ==
    /\ \A i \in DOMAIN ea_dicts :
          /\ Unfitted(ea_dicts[i], ea_dicts[i].T_reactor, ea_dicts[i].Ea)
          /\ Unfitted(ea_dicts[i], ea_dicts[i].T_reactor, ea_dicts[i].A_app)
    /\ \A i \in DOMAIN ro_dicts :
          Unfitted(ro_dicts[i], ro_dicts[i].p, ro_dicts[i].r_order)
    /\ \A i \in DOMAIN g1_ea_dicts :
          /\ Unfitted(g1_ea_dicts[i], g1_ea_dicts[i].T_reaction, g1_ea_dicts[i].Ea)
          /\ Unfitted(g1_ea_dicts[i], g1_ea_dicts[i].T_reaction, g1_ea_dicts[i].A_app)
    /\ \A i \in DOMAIN ro_base_dicts :
          Unfitted(ro_base_dicts[i], ro_base_dicts[i].C_base, ro_base_dicts[i].ro_base)
    /\ \A i \in DOMAIN ro_ester_dicts :
          Unfitted(ro_ester_dicts[i], ro_ester_dicts[i].C_ester,
                   ro_ester_dicts[i].ro_ester)

\* C12 (below the fit threshold nothing is fitted): in every family, a
\* group with fewer than two distinct values of the independent variable
\* has every derived output (fit coefficient, r_squared, plot series, fit
\* series) null and its updated flag false once the event is processed.
C12_BelowThresholdUnfitted ==
    /\ UnfittedBelowTwo
    /\ \A i \in DOMAIN rate_dicts :
          Unfitted(rate_dicts[i], rate_dicts[i].tau, rate_dicts[i].rate)

\* A group without members has an empty column x, no fit output and no
\* error; rate is the fit output of the rate family and a column elsewhere.
EmptyNull(d, x, output) ==
    d.ref_ids = <<>>
        => /\ x = <<>>
           /\ d.rate = (IF output = "rate" THEN None ELSE <<>>)
           /\ d.r_squared = None
           /\ d.plotdata = None
           /\ d.fitdata = None
           /\ d.error = None

EmptyGroupsNull ==
    /\ \A i \in DOMAIN rate_dicts :
          /\ EmptyNull(rate_dicts[i], rate_dicts[i].tau, "rate")
          /\ rate_dicts[i].ref_ids = <<>> => rate_dicts[i].conversion = <<>>
    /\ \A i \in DOMAIN ea_dicts :
          /\ EmptyNull(ea_dicts[i], ea_dicts[i].T_reactor, "Ea")
          /\ ea_dicts[i].ref_ids = <<>> => ea_dicts[i].Ea = None /\ ea_dicts[i].A_app = None
    /\ \A i \in DOMAIN ro_dicts :
          /\ EmptyNull(ro_dicts[i], ro_dicts[i].p, "r_order")
          /\ ro_dicts[i].ref_ids = <<>> => ro_dicts[i].r_order = None
    /\ \A i \in DOMAIN g1_ea_dicts :
          /\ EmptyNull(g1_ea_dicts[i], g1_ea_dicts[i].T_reaction, "Ea")
          /\ g1_ea_dicts[i].ref_ids = <<>>
                => g1_ea_dicts[i].Ea = None /\ g1_ea_dicts[i].A_app = None
    /\ \A i \in DOMAIN ro_base_dicts :
          /\ EmptyNull(ro_base_dicts[i], ro_base_dicts[i].C_base, "ro_base")
          /\ ro_base_dicts[i].ref_ids = <<>> => ro_base_dicts[i].ro_base = None
    /\ \A i \in DOMAIN ro_ester_dicts :
          /\ EmptyNull(ro_ester_dicts[i], ro_ester_dicts[i].C_ester, "ro_ester")
          /\ ro_ester_dicts[i].ref_ids = <<>> => ro_ester_dicts[i].ro_ester = None

\* Every group of the family old is at the same position of new.
Persist(old, new) ==
    \A i \in DOMAIN old : i \in DOMAIN new /\ new[i].id = old[i].id

GroupsPersist ==
    /\ Persist(rate_dicts, rate_dicts')
    /\ Persist(ea_dicts, ea_dicts')
    /\ Persist(ro_dicts, ro_dicts')
    /\ Persist(g1_ea_dicts, g1_ea_dicts')
    /\ Persist(ro_base_dicts, ro_base_dicts')
    /\ Persist(ro_ester_dicts, ro_ester_dicts')

\* C13 (emptied groups persist and decay to null): a group that has lost
\* its only member stays in its family list with empty ref_ids and empty
\* columns, its fit fields and its error are null after the event, and no
\* event removes a group from its list.
C13_EmptiedGroupsPersist == []EmptyGroupsNull /\ [][GroupsPersist]_vars

\* C13 witness: the only member of a rate group has been deleted,
\* deactivated or moved to another key, and the group is still listed.
C13_Witness ==
    /\ last.app = "G3" /\ last.grouped /\ ~last.raised
    /\ last.op \in {"delete", "toggle", "edit"}
    /\ \E i \in DOMAIN rate_dicts : rate_dicts[i].ref_ids = <<>>

\* No group of the family is marked updated.
Clean(dicts) == \A i \in DOMAIN dicts : dicts[i].updated = FALSE

NoneUpdated ==
    /\ Clean(rate_dicts) /\ Clean(ea_dicts) /\ Clean(ro_dicts)
    /\ Clean(g1_ea_dicts) /\ Clean(ro_base_dicts) /\ Clean(ro_ester_dicts)

\* Removing a member from a stored G3 group, or inserting a stored data
\* point (rate group) into it, marks the group updated; so does creation.
G3MarksUpdated ==
    /\ \A i \in DOMAIN rate_dicts :
          /\ \A id \in Range(rate_dicts[i].ref_ids) :
                G3_rate_remove(rate_dicts[i], id).updated = TRUE
          /\ \A pk \in G3Stored :
                /\ G3_rate_append(rate_dicts[i], g3data[pk].proc_data).updated = TRUE
                /\ G3_rate_new(rate_dicts, g3data[pk].proc_data).updated = TRUE
    /\ \A j \in DOMAIN rate_dicts :
          /\ \A i \in DOMAIN ea_dicts :
                /\ rate_dicts[j].id \in Range(ea_dicts[i].ref_ids)
                      => G3_ea_remove(ea_dicts[i], rate_dicts[j].id).updated = TRUE
                /\ G3_ea_append(ea_dicts[i], rate_dicts[j]).updated = TRUE
          /\ \A i \in DOMAIN ro_dicts :
                /\ rate_dicts[j].id \in Range(ro_dicts[i].ref_ids)
                      => G3_ro_remove(ro_dicts[i], rate_dicts[j].id).updated = TRUE
                /\ G3_ro_append(ro_dicts[i], rate_dicts[j]).updated = TRUE
          /\ G3_ea_new(ea_dicts, rate_dicts[j]).updated = TRUE
          /\ G3_ro_new(ro_dicts, rate_dicts[j]).updated = TRUE

G1MarksUpdated ==
    \A pk \in G1Stored :
        /\ \A i \in DOMAIN g1_ea_dicts :
              /\ pk \in Range(g1_ea_dicts[i].ref_ids)
                    => G1_ea_remove(g1_ea_dicts[i], pk).updated = TRUE
              /\ G1_ea_append(g1_ea_dicts[i], g1data[pk].proc_data).updated = TRUE
        /\ \A i \in DOMAIN ro_base_dicts :
              /\ pk \in Range(ro_base_dicts[i].ref_ids)
                    => G1_ro_base_remove(ro_base_dicts[i], pk).updated = TRUE
              /\ G1_ro_base_append(ro_base_dicts[i], g1data[pk].proc_data).updated = TRUE
        /\ \A i \in DOMAIN ro_ester_dicts :
              /\ pk \in Range(ro_ester_dicts[i].ref_ids)
                    => G1_ro_ester_remove(ro_ester_dicts[i], pk).updated = TRUE
              /\ G1_ro_ester_append(ro_ester_dicts[i], g1data[pk].proc_data).updated = TRUE
        /\ G1_ea_new(g1_ea_dicts, g1data[pk].proc_data).updated = TRUE
        /\ G1_ro_base_new(ro_base_dicts, g1data[pk].proc_data).updated = TRUE
        /\ G1_ro_ester_new(ro_ester_dicts, g1data[pk].proc_data).updated = TRUE

\* C14 (dirty-flag protocol): every removal from and every insertion into
\* a group sets its updated flag, and once an event has been processed no
\* group of any family has updated = true.
C14_DirtyFlagProtocol == NoneUpdated /\ G3MarksUpdated /\ G1MarksUpdated

\* C14 witness: an event has regrouped a data point in G3 down to the
\* second level, or in G1.
C14_Witness ==
    /\ ~last.raised /\ last.op \in {"add", "edit", "toggle"}
    /\ \/ /\ last.app = "G3"
          /\ \E j \in DOMAIN rate_dicts, i \in DOMAIN ea_dicts :
                /\ last.id \in Range(rate_dicts[j].ref_ids)
                /\ rate_dicts[j].id \in Range(ea_dicts[i].ref_ids)
       \/ /\ last.app = "G1"
          /\ last.id \in Members(g1_ea_dicts)

\* Each member of the second-level group d is a stored rate group, and the
\* group's entries for it are that rate group's current rate and its x.
RatesCurrent(d, xs, x(_)) ==
    \A i \in DOMAIN d.ref_ids :
        \E j \in DOMAIN rate_dicts :
            /\ rate_dicts[j].id = d.ref_ids[i]
            /\ d.rate[i] = rate_dicts[j].rate
            /\ xs[i] = x(rate_dicts[j])

\* A rate group whose fit may be used further is a member of the second level.
RatesFed ==
    \A j \in DOMAIN rate_dicts :
        G3_rate_feeds(rate_dicts[j])
            => /\ rate_dicts[j].id \in Members(ea_dicts)
               /\ rate_dicts[j].id \in Members(ro_dicts)

\* C15 (dependency order across families): the second level of G3 is
\* updated after the rate fit of the same event, so after every event each
\* Ea and reaction-order group holds, for each member rate group, the rate
\* now stored in that rate group, and every usable rate group is a member.
C15_DependencyOrder ==
    /\ \A i \in DOMAIN ea_dicts :
          RatesCurrent(ea_dicts[i], ea_dicts[i].T_reactor, LAMBDA r : r.T_reactor)
    /\ \A i \in DOMAIN ro_dicts :
          RatesCurrent(ro_dicts[i], ro_dicts[i].p, LAMBDA r : r.p)
    /\ RatesFed

\* C15 witness: an upload joined a rate group that was already fitted from
\* three data points and feeds an Ea and a reaction-order group; the group
\* has been refitted from four.
C15_Witness ==
    /\ last.app = "G3" /\ last.op = "add" /\ ~last.raised
    /\ \E j \in DOMAIN rate_dicts :
          /\ Len(rate_dicts[j].ref_ids) = 4
          /\ rate_dicts[j].ref_ids[4] = last.id
          /\ rate_dicts[j].id \in Members(ea_dicts)
          /\ rate_dicts[j].id \in Members(ro_dicts)

\* C16 (no failure path): the handler of every Created, Updated or Deleted
\* event completes without raising.
C16_NoFailurePath == last.raised = FALSE

\* The last event created or edited a G1 data point whose stored raw data
\* and file give no initial rate (no sample at 25 % conversion, or no slope).
G1DerivationFailed ==
    /\ last.app = "G1"
    /\ last.op \in {"add", "edit"}
    /\ G1_calc_raises(g1data[last.id].raw_data, g1data[last.id].file)

\* The data point of the last event is stored without a rate and is a
\* member of no G1 group.
G1Undetermined ==
    /\ g1data[last.id].exists
    /\ g1data[last.id].proc_data.rate = None
    /\ last.id \notin Members(g1_ea_dicts) \cup Members(ro_base_dicts)
                         \cup Members(ro_ester_dicts)

\* C17 (derivation degrades to null): when calc_init_slope returns no slope
\* or no sample reaches the conversion threshold, the G1 derivation
\* completes with rate null, the data point stays stored, and it is in no
\* Ea or reaction-order group.
C17_DerivationDegrades ==
    G1DerivationFailed => last.raised = FALSE /\ G1Undetermined

\* The Created or Updated event just handled completed, and the stored
\* proc_data of its data point is the derivation of its stored raw fields
\* (G1: of its stored raw fields and file, whenever that yields a result).
DerivedPersisted ==
    last'.op # "delete" /\ last'.raised = FALSE
        => /\ last'.app = "G3"
                 => g3data'[last'.id].proc_data
                        = G3_calc_proc_data(g3data'[last'.id].raw_data)
           /\ (/\ last'.app = "G1"
               /\ ~G1_calc_raises(g1data'[last'.id].raw_data, g1data'[last'.id].file))
                 => g1data'[last'.id].proc_data
                        = G1_calc_proc_data(g1data'[last'.id].raw_data,
                                            g1data'[last'.id].file)

\* C18 (derived fields are persisted): after a Created or Updated event
\* completes, an edit through the edit view included, the stored proc_data
\* of the data point equals the derivation of its stored raw fields.
C18_DerivedPersisted == [][DerivedPersisted]_vars

\* The event just handled saved a stored data point.
SavedExisting(app) ==
    last'.app = app /\ last'.op \in {"edit", "toggle", "enable", "disable"}

\* G3: the derivation ran only if the stored raw fields or the stored
\* active flag changed; when it did not run, the stored proc_data is as
\* it was.
G3Memoized ==
    SavedExisting("G3")
        => /\ last'.derived
                 => \/ g3data'[last'.id].raw_data # g3data[last'.id].raw_data
                    \/ g3data'[last'.id].is_active # g3data[last'.id].is_active
           /\ ~last'.derived
                 => g3data'[last'.id].proc_data = g3data[last'.id].proc_data

\* G1: the derivation ran only in a save of the edit or the toggle view;
\* when it did not run, the stored proc_data is as it was.
G1Memoized ==
    SavedExisting("G1")
        => /\ last'.derived => last'.op \in {"edit", "toggle"}
           /\ ~last'.derived
                 => g1data'[last'.id].proc_data = g1data[last'.id].proc_data

\* C19 (memoized derivation): a save of an existing data point re-runs the
\* derivation only when its raw fields or its active flag differ from the
\* stored ones (G1: only when edit or toggle cleared is_processed); a save
\* that changes neither leaves the derived fields as they were.
C19_MemoizedDerivation == [][G3Memoized /\ G1Memoized]_vars

\* C20: concurrent events on one user experiment race with last-write-wins
\* on the whole results record.  When two handlers both fetch the record
\* before either saves it, the record stored once both have returned is
\* exactly the copy of the handler that saved last, and the membership
\* change of the other is not in it; when one has saved before the other
\* fetches, both changes are in it.
\* The handlers that have returned after saving.
Returned == {n \in DOMAIN inflight : inflight[n].cycles = 0 /\ inflight[n].saved_at > 0}

\* The data point of handler h is a member of every family of its app
\* (InAll), of none of them (InNone).
InAll(h) ==
    IF h.app = "G3" THEN h.id \in Members(rate_dicts)
    ELSE /\ h.id \in Members(g1_ea_dicts)
         /\ h.id \in Members(ro_base_dicts)
         /\ h.id \in Members(ro_ester_dicts)

InNone(h) ==
    IF h.app = "G3" THEN h.id \notin Members(rate_dicts)
    ELSE /\ h.id \notin Members(g1_ea_dicts)
         /\ h.id \notin Members(ro_base_dicts)
         /\ h.id \notin Members(ro_ester_dicts)

\* The membership change of handler h is in the stored record: the data
\* point it saved is a member, the one it deleted is not.
Present(h) == IF h.deleted THEN InNone(h) ELSE InAll(h)

\* The stored record is as if handler h had not run.
Absent(h) == IF h.deleted THEN InAll(h) ELSE InNone(h)

\* The stored record is the copy handler h saved.
Stored(h) == IF h.app = "G3" THEN G3Results = h.held ELSE G1Results = h.held

\* Both handlers fetched before either saved: no fetch of the two follows a
\* save of the two.  A handler that runs upd_g1results twice saves before
\* its second fetch, so this holds only of handlers that run one cycle.
Overlap(a, b) ==
    /\ a.fetched_at < a.first_saved_at /\ a.fetched_at < b.first_saved_at
    /\ b.fetched_at < a.first_saved_at /\ b.fetched_at < b.first_saved_at

LastWriteWins(a, b) ==
    Overlap(a, b) /\ a.saved_at < b.saved_at => Stored(b) /\ Absent(a)

BothPresent(a, b) ==
    a.saved_at < b.first_fetched_at /\ a.id # b.id => Present(a) /\ Present(b)

C20_LastWriteWins ==
    Returned = DOMAIN inflight =>
        \A m, n \in Returned :
            m # n => /\ LastWriteWins(inflight[m], inflight[n])
                     /\ BothPresent(inflight[m], inflight[n])

\* Two uploads that raced: both rows are stored, the first to save is in no
\* rate group, the second is.
C20_Witness ==
    /\ Returned = DOMAIN inflight
    /\ \E m, n \in Returned :
          /\ Overlap(inflight[m], inflight[n])
          /\ inflight[m].saved_at < inflight[n].saved_at
          /\ ~inflight[m].deleted /\ ~inflight[n].deleted
          /\ g3data[inflight[m].id].exists /\ g3data[inflight[n].id].exists
          /\ inflight[m].id \notin Members(rate_dicts)
          /\ inflight[n].id \in Members(rate_dicts)

\* The groups of a family that neither held the member id before the step
\* nor hold it after are as they were.
OthersUnchanged(old, new, id) ==
    /\ Len(new) >= Len(old)
    /\ \A i \in DOMAIN old :
          (id \notin Range(old[i].ref_ids) /\ id \notin Range(new[i].ref_ids))
              => new[i] = old[i]

\* The ids of the rate groups that held the data point id before the step
\* or hold it after.
TouchedRates(id) ==
    {rate_dicts[i].id : i \in {j \in DOMAIN rate_dicts : id \in Range(rate_dicts[j].ref_ids)}}
        \cup {rate_dicts'[i].id :
                 i \in {j \in DOMAIN rate_dicts' : id \in Range(rate_dicts'[j].ref_ids)}}

\* The Ea or reaction order groups that neither held a touched rate group
\* before the step nor hold one after are as they were.
SecondLevelUnchanged(old, new, touched) ==
    /\ Len(new) >= Len(old)
    /\ \A i \in DOMAIN old :
          (Range(old[i].ref_ids) \cap touched = {} /\ Range(new[i].ref_ids) \cap touched = {})
              => new[i] = old[i]

FrameKept ==
    /\ OthersUnchanged(rate_dicts, rate_dicts', last'.id)
    /\ OthersUnchanged(g1_ea_dicts, g1_ea_dicts', last'.id)
    /\ OthersUnchanged(ro_base_dicts, ro_base_dicts', last'.id)
    /\ OthersUnchanged(ro_ester_dicts, ro_ester_dicts', last'.id)
    /\ SecondLevelUnchanged(ea_dicts, ea_dicts', TouchedRates(last'.id))
    /\ SecondLevelUnchanged(ro_dicts, ro_dicts', TouchedRates(last'.id))

\* C21 (recompute only what changed): an event for a data point leaves
\* every group that neither held the data point before the event nor
\* receives it as it was (members, columns, fit fields, error, updated
\* flag), and in G3 every Ea and reaction order group that neither holds
\* nor receives a rate group touched by the event.
C21_OnlyChangedRecomputed == [][FrameKept]_vars

\* C21 witness: an upload went into a rate group of its own while an Ea
\* group holds two other rate groups, the later one first.
C21_Witness ==
    /\ last.app = "G3" /\ last.op = "add" /\ ~last.raised
    /\ last.id \in Members(rate_dicts)
    /\ \E i \in DOMAIN ea_dicts, j, k \in DOMAIN rate_dicts :
          /\ j < k
          /\ ea_dicts[i].ref_ids = <<rate_dicts[k].id, rate_dicts[j].id>>
          /\ last.id \notin Range(rate_dicts[j].ref_ids)
          /\ last.id \notin Range(rate_dicts[k].ref_ids)

\* The call under study has returned, and min_points was at least 1.
Fitted1 == trial.called /\ trial.min_points >= 1

\* The prefixes from min_points on whose fit reaches the threshold.
GoodPrefixes == {k \in trial.min_points..Len(trial.x) : G1_r_sq_ok(trial.x, trial.y, k)}

\* The slope returned is the least squares slope through the origin of the
\* first n points (the initial guess when every x is zero).
SlopeOfPrefix(slope, n) ==
    LET Sxx == SumProd(Prefix(trial.x, n), Prefix(trial.x, n))
        Sxy == SumProd(Prefix(trial.x, n), Prefix(trial.y, n))
    IN  IF Sxx = 0 THEN slope = <<P0, 1>>
        ELSE slope[2] # 0 /\ slope[1] * Sxx = slope[2] * Sxy

ExtendedWhileGood(n) ==
    /\ n \in trial.min_points..Len(trial.x)
    /\ \A k \in (trial.min_points + 1)..n : k \in GoodPrefixes
    /\ n < Len(trial.x) => n + 1 \notin GoodPrefixes
    /\ SlopeOfPrefix(trial.fit.slope, n)
    /\ trial.fit.r_squared = <<"r2", n>>

C23_BaselineAccepted ==
    (trial.called /\ trial.min_points \in 1..Len(trial.x))
        => /\ trial.fit.slope # None
           /\ trial.fit.r_squared # None
           /\ trial.fit.num_points # None
           /\ trial.fit.num_points[1] >= trial.min_points
           /\ SlopeOfPrefix(trial.fit.slope, trial.fit.num_points[1])

\* C23 witness: the fit of the first min_points of several points is below
\* the threshold and is what the call returned.
C23_Witness ==
    /\ trial.called
    /\ trial.min_points >= 2
    /\ trial.min_points < Len(trial.x)
    /\ trial.min_points \notin GoodPrefixes
    /\ trial.fit.num_points = <<trial.min_points>>
    /\ trial.fit.slope # None

\* The data of the call are y = 3 * x without noise.
Linear3 == \A i \in DOMAIN trial.x : trial.y[i] = 3 * trial.x[i]

\* The fit through the origin of all points leaves no residual, and the
\* points are not all equal: R2 = 1.
FullFitExact ==
    /\ SumProd(trial.y, trial.y) * SumProd(trial.x, trial.x)
          = SumProd(trial.x, trial.y) * SumProd(trial.x, trial.y)
    /\ Len(trial.y) * SumProd(trial.y, trial.y)
          # SumProd(trial.y, [i \in DOMAIN trial.y |-> 1])
               * SumProd(trial.y, [i \in DOMAIN trial.y |-> 1])

\* The call returned the fit of all points.
AllPointsUsed ==
    /\ trial.fit.num_points = <<Len(trial.x)>>
    /\ trial.fit.r_squared = <<"r2", Len(trial.x)>>
    /\ SlopeOfPrefix(trial.fit.slope, Len(trial.x))

\* C24 (calc_init_slope on perfectly linear data): when the fit of every
\* prefix from min_points on reaches the threshold, all points are used and
\* the slope returned is that of the fit of all points; for y = 3 * x
\* without noise and min_points = 2 that slope is 3 and R2 is 1.
C24_LinearUsesAll ==
    /\ (Fitted1 /\ GoodPrefixes = trial.min_points..Len(trial.x)) => AllPointsUsed
    /\ (trial.called /\ trial.min_points = 2 /\ Linear3)
          => /\ AllPointsUsed
             /\ trial.fit.slope[1] = 3 * trial.fit.slope[2]
             /\ FullFitExact

\* C24 witness: a call with min_points = 2 on the largest number of points
\* of y = 3 * x has returned.
C24_Witness ==
    /\ trial.called /\ trial.min_points = 2 /\ Linear3
    /\ Len(trial.x) = MaxPoints
    /\ trial.fit.num_points = <<MaxPoints>>

\* The rows of a group in the order of its ref_ids.
G3RateRows(d) ==
    [k \in DOMAIN d.ref_ids |->
        <<d.ref_ids[k], d.tau[k], d.conversion[k], d.is_active[k], d.is_simulated[k]>>]

PairRows(d, x) == [k \in DOMAIN d.ref_ids |-> <<d.ref_ids[k], x[k], d.rate[k]>>]

\* The group that held the data point id under another key than the one
\* the data point has now (eq) keeps its other rows in their order and is
\* stored as its evaluation leaves it.
LeftOldGroup(old, new, id, eq(_), rows(_), evaluated(_)) ==
    \A i \in DOMAIN old :
        (id \in Range(old[i].ref_ids) /\ ~eq(old[i]))
            => /\ rows(new[i]) = SelectSeq(rows(old[i]), LAMBDA r : r[1] # id)
               /\ new[i].updated = FALSE
               /\ evaluated([new[i] EXCEPT !.updated = TRUE]) = new[i]

\* The data point id is a member of the group with its key and of no other.
InKeyGroupOnly(new, id, eq(_)) ==
    /\ \E j \in DOMAIN new : eq(new[j])
    /\ \A j \in DOMAIN new : id \in Range(new[j].ref_ids) <=> eq(new[j])

G3KeyChange ==
    (/\ last'.app = "G3" /\ last'.op = "edit"
     /\ last'.proc_data.tau # None /\ last'.proc_data.conversion # None)
        => /\ LeftOldGroup(rate_dicts, rate_dicts', last'.id,
                           LAMBDA d : /\ d.p = last'.proc_data.p
                                      /\ d.T_reactor = last'.proc_data.T_reactor,
                           G3RateRows,
                           LAMBDA d : [G3_upd_rate(d) EXCEPT !.updated = FALSE])
           /\ last'.proc_data.is_active
                 => InKeyGroupOnly(rate_dicts', last'.id,
                                   LAMBDA d : /\ d.p = last'.proc_data.p
                                              /\ d.T_reactor = last'.proc_data.T_reactor)

G1KeyChange ==
    (last'.app = "G1" /\ last'.op = "edit" /\ ~last'.raised)
        => /\ LeftOldGroup(g1_ea_dicts, g1_ea_dicts', last'.id,
                           LAMBDA d : /\ d.C_base = last'.proc_data.C_base
                                      /\ d.C_ester = last'.proc_data.C_ester,
                           LAMBDA d : PairRows(d, d.T_reaction), G1_upd_ea_one)
           /\ LeftOldGroup(ro_base_dicts, ro_base_dicts', last'.id,
                           LAMBDA d : /\ d.T_reaction = last'.proc_data.T_reaction
                                      /\ d.C_ester = last'.proc_data.C_ester,
                           LAMBDA d : PairRows(d, d.C_base), G1_upd_ro_base_one)
           /\ LeftOldGroup(ro_ester_dicts, ro_ester_dicts', last'.id,
                           LAMBDA d : /\ d.T_reaction = last'.proc_data.T_reaction
                                      /\ d.C_base = last'.proc_data.C_base,
                           LAMBDA d : PairRows(d, d.C_ester), G1_upd_ro_ester_one)
           /\ last'.proc_data.is_active = <<TRUE>>
                 => /\ InKeyGroupOnly(g1_ea_dicts', last'.id,
                                      LAMBDA d : /\ d.C_base = last'.proc_data.C_base
                                                 /\ d.C_ester = last'.proc_data.C_ester)
                    /\ InKeyGroupOnly(ro_base_dicts', last'.id,
                                      LAMBDA d : /\ d.T_reaction = last'.proc_data.T_reaction
                                                 /\ d.C_ester = last'.proc_data.C_ester)
                    /\ InKeyGroupOnly(ro_ester_dicts', last'.id,
                                      LAMBDA d : /\ d.T_reaction = last'.proc_data.T_reaction
                                                 /\ d.C_base = last'.proc_data.C_base)

\* C25 (key change on update): when an edit changes the key values of a
\* data point in a family, the data point is removed, with its entry in
\* every column, from the group that held it, that group is marked updated
\* and evaluated again in the same event, and the data point is a member
\* only of the group with its new key, which it joined or which was
\* created for it.
C25_KeyChangeMoves == [][G3KeyChange /\ G1KeyChange]_vars

\* C25 witness: an edit took a data point out of the only rate group, which
\* keeps two members, into a second group created for it.
C25_Witness ==
    /\ last.app = "G3" /\ last.op = "edit" /\ last.grouped /\ ~last.raised
    /\ Len(rate_dicts) = 2
    /\ Len(rate_dicts[1].ref_ids) = 2
    /\ rate_dicts[1].rate # None
    /\ rate_dicts[2].ref_ids = <<last.id>>

\* Wherever the data point proc_data.id is a member of a rate group, the
\* group's key and the member's column entries are those of proc_data.
G3TracksIn(dicts, proc_data) ==
    \A i \in DOMAIN dicts : \A k \in DOMAIN dicts[i].ref_ids :
        dicts[i].ref_ids[k] = proc_data.id
            => /\ dicts[i].p = proc_data.p
               /\ dicts[i].T_reactor = proc_data.T_reactor
               /\ dicts[i].tau[k] = proc_data.tau
               /\ dicts[i].conversion[k] = proc_data.conversion
               /\ dicts[i].is_simulated[k] = proc_data.is_simulated

G3Tracks ==
    \A id \in G3Stored : G3TracksIn(rate_dicts, G3_calc_proc_data(g3data[id].raw_data))

\* The same for the groups of one G1 family: key1 and key2 are its key
\* fields and col the field its column holds.
G1TracksIn(dicts, proc_data, key1(_), key2(_), col(_), column(_)) ==
    \A i \in DOMAIN dicts : \A k \in DOMAIN dicts[i].ref_ids :
        dicts[i].ref_ids[k] = proc_data.id
            => /\ key1(dicts[i]) = key1(proc_data)
               /\ key2(dicts[i]) = key2(proc_data)
               /\ column(dicts[i])[k] = col(proc_data)
               /\ dicts[i].rate[k] = proc_data.rate

G1TracksAll(proc_data) ==
    /\ G1TracksIn(g1_ea_dicts, proc_data, LAMBDA d : d.C_base, LAMBDA d : d.C_ester,
                  LAMBDA d : d.T_reaction, LAMBDA d : d.T_reaction)
    /\ G1TracksIn(ro_base_dicts, proc_data, LAMBDA d : d.T_reaction,
                  LAMBDA d : d.C_ester, LAMBDA d : d.C_base, LAMBDA d : d.C_base)
    /\ G1TracksIn(ro_ester_dicts, proc_data, LAMBDA d : d.T_reaction,
                  LAMBDA d : d.C_base, LAMBDA d : d.C_ester, LAMBDA d : d.C_ester)

G1Tracks ==
    \A id \in G1Stored :
        ~G1_calc_raises(g1data[id].raw_data, g1data[id].file)
            => G1TracksAll(G1_calc_proc_data(g1data[id].raw_data, g1data[id].file))

\* C26 (group contents track current data): after any sequence of add,
\* edit, toggle and save events, for every data point that is a member of
\* a group, the group's key and the data point's column entries equal the
\* values derived from its stored raw fields.
C26_GroupsTrackData == G3Tracks /\ G1Tracks

\* The second-level groups of dicts that have the rate dict r as a member.
GroupsHolding(dicts, r) == {i \in DOMAIN dicts : r.id \in Range(dicts[i].ref_ids)}

\* The rate dict r is a member of its Ea and RO group exactly when it has
\* a rate and no error, and of no Ea or RO group with another key.
FeedsExactly(r) ==
    /\ GroupsHolding(ea_dicts, r) =
          IF r.rate # None /\ r.error = None
          THEN {i \in DOMAIN ea_dicts : ea_dicts[i].p = r.p}
          ELSE {}
    /\ GroupsHolding(ro_dicts, r) =
          IF r.rate # None /\ r.error = None
          THEN {i \in DOMAIN ro_dicts : ro_dicts[i].T_reactor = r.T_reactor}
          ELSE {}
    /\ (r.rate # None /\ r.error = None)
          => GroupsHolding(ea_dicts, r) # {} /\ GroupsHolding(ro_dicts, r) # {}
    /\ Unique(r.tau) < 3
          => GroupsHolding(ea_dicts, r) = {} /\ GroupsHolding(ro_dicts, r) = {}

\* C27 (only well-determined rates feed the second level): after every G3
\* event a rate group is a member of the Ea group with its p and of the RO
\* group with its T_reactor exactly when its rate is non-null and its
\* error is null; a rate group with fewer than 3 distinct tau values is a
\* member of no Ea or RO group.
C27_WellDeterminedFeed ==
    \A j \in DOMAIN rate_dicts : FeedsExactly(rate_dicts[j])

\* C27 witness: after a G3 event one rate group with a rate and no error is
\* in an Ea and an RO group, and another has an estimated rate with an
\* error and is in none.
C27_Witness ==
    /\ last.app = "G3" /\ ~last.raised
    /\ \E j, k \in DOMAIN rate_dicts :
          /\ rate_dicts[j].rate # None /\ rate_dicts[j].error = None
          /\ GroupsHolding(ea_dicts, rate_dicts[j]) # {}
          /\ GroupsHolding(ro_dicts, rate_dicts[j]) # {}
          /\ rate_dicts[k].rate # None /\ rate_dicts[k].error # None
          /\ GroupsHolding(ea_dicts, rate_dicts[k]) = {}
          /\ GroupsHolding(ro_dicts, rate_dicts[k]) = {}

\* The diagnostic tier the error of a rate dict stands for.
RateTier(d) ==
    IF d.error = None THEN 3 ELSE IF d.error[2] = "one" THEN 1 ELSE 2

\* The number of points the fit of the rate dict d was given, as its two
\* marker series show them.
FittedPoints(d) == Len(d.plotdata[1]) + Len(d.simuldata[1])

\* The rate dict d was fitted to its members and the origin, and its tier
\* is the number of distinct tau values of its members, 3 standing for 3
\* or more.
OriginNotCounted(d) ==
    (d.ref_ids # <<>> /\ d.rate # None)
        => /\ FittedPoints(d) = Len(d.ref_ids) + 1
           /\ d.fitdata[1][1] = 0
           /\ RateTier(d) = IF Unique(Mags(d.tau)) >= 3 THEN 3
                            ELSE Unique(Mags(d.tau))

\* C28 (the synthetic origin is not counted): the point (0, 0) is added to
\* the input of a rate fit only, and the number of distinct tau values
\* that selects the diagnostic tier (1, 2, 3 or more) is that of the real
\* members, so a group with one real tau value is in tier 1 although two
\* points are fitted.
C28_OriginNotCounted ==
    \A i \in DOMAIN rate_dicts : OriginNotCounted(rate_dicts[i])

\* C28 witness: a rate group with a single member was fitted to two points
\* and carries the message of tier 1, next to a group with two distinct
\* tau values in tier 2.
C28_Witness ==
    /\ last.app = "G3" /\ ~last.raised
    /\ \E i, j \in DOMAIN rate_dicts :
          /\ Len(rate_dicts[i].ref_ids) = 1
          /\ rate_dicts[i].rate # None
          /\ FittedPoints(rate_dicts[i]) = 2
          /\ RateTier(rate_dicts[i]) = 1
          /\ Unique(Mags(rate_dicts[j].tau)) = 2
          /\ rate_dicts[j].rate # None
          /\ RateTier(rate_dicts[j]) = 2

\* The points of a marker series, each tau with its conversion.
SeriesPoints(series) == [n \in DOMAIN series[1] |-> <<series[1][n], series[2][n]>>]

\* The members of the rate dict d, each with its tau, its conversion and
\* its is_simulated flag.
RatePoints(d) ==
    [k \in DOMAIN d.ref_ids |-> <<Q_(d.tau[k]), Q_(d.conversion[k]), d.is_simulated[k]>>]

\* The tau/conversion pairs of the members whose is_simulated flag is b.
PointsOf(d, b) ==
    LET rows == SelectSeq(RatePoints(d), LAMBDA r : r[3] = b)
    IN  [n \in DOMAIN rows |-> <<rows[n][1], rows[n][2]>>]

\* After a fit of the rate dict d the 'Sim' series holds its simulated
\* members, the 'Exp' series the others and then the origin, and there is
\* one fit series.
Partitioned(d) ==
    (d.ref_ids # <<>> /\ d.rate # None)
        => /\ SeriesPoints(d.simuldata) = PointsOf(d, TRUE)
           /\ SeriesPoints(d.plotdata) = Append(PointsOf(d, FALSE), <<0, 0>>)
           /\ d.fitdata # None /\ Len(d.fitdata) = 2

\* C29 (rate plot partition): after a successful rate fit every real
\* member of the rate group is in exactly one of the two marker series,
\* simulated members in 'Sim' and the others in 'Exp', with its tau and
\* conversion kept together; the origin is in 'Exp' only, and there is a
\* single fit series.
C29_PlotPartition == \A i \in DOMAIN rate_dicts : Partitioned(rate_dicts[i])

\* C29 witness: a fitted rate group has a simulated and an experimental
\* member, one in each marker series.
C29_Witness ==
    /\ last.app = "G3" /\ ~last.raised
    /\ \E i \in DOMAIN rate_dicts :
          /\ rate_dicts[i].rate # None
          /\ TRUE \in Range(rate_dicts[i].is_simulated)
          /\ FALSE \in Range(rate_dicts[i].is_simulated)
          /\ Len(rate_dicts[i].simuldata[1]) >= 1
          /\ Len(rate_dicts[i].plotdata[1]) >= 2

\* In the group that held the data point row[1] under the key the data
\* point still has (eq), the other rows keep their order and row comes
\* last.
MovedLast(old, new, row, eq(_), rows(_)) ==
    \A i \in DOMAIN old :
        (row[1] \in Range(old[i].ref_ids) /\ eq(old[i]))
            => rows(new[i]) = Append(SelectSeq(rows(old[i]), LAMBDA r : r[1] # row[1]), row)

G3Reappended(proc_data) ==
    (/\ proc_data.tau # None /\ proc_data.conversion # None
     /\ proc_data.is_active)
        => MovedLast(rate_dicts, rate_dicts',
                     <<proc_data.id, proc_data.tau, proc_data.conversion,
                       proc_data.is_active, proc_data.is_simulated>>,
                     LAMBDA d : d.p = proc_data.p /\ d.T_reactor = proc_data.T_reactor,
                     G3RateRows)

G1Reappended(proc_data) ==
    (proc_data.is_active = <<TRUE>> /\ proc_data.rate # None)
        => /\ MovedLast(g1_ea_dicts, g1_ea_dicts',
                        <<proc_data.id, proc_data.T_reaction, proc_data.rate>>,
                        LAMBDA d : /\ d.C_base = proc_data.C_base
                                   /\ d.C_ester = proc_data.C_ester,
                        LAMBDA d : PairRows(d, d.T_reaction))
           /\ MovedLast(ro_base_dicts, ro_base_dicts',
                        <<proc_data.id, proc_data.C_base, proc_data.rate>>,
                        LAMBDA d : /\ d.T_reaction = proc_data.T_reaction
                                   /\ d.C_ester = proc_data.C_ester,
                        LAMBDA d : PairRows(d, d.C_base))
           /\ MovedLast(ro_ester_dicts, ro_ester_dicts',
                        <<proc_data.id, proc_data.C_ester, proc_data.rate>>,
                        LAMBDA d : /\ d.T_reaction = proc_data.T_reaction
                                   /\ d.C_base = proc_data.C_base,
                        LAMBDA d : PairRows(d, d.C_ester))

Reappended ==
    (last'.op \in {"edit", "toggle", "enable", "disable"} /\ ~last'.raised)
        => /\ last'.app = "G3" => G3Reappended(last'.proc_data)
           /\ last'.app = "G1" => G1Reappended(last'.proc_data)

\* C30 (member order is the order of the last addition): ref_ids is not
\* kept sorted; a save of a stored data point that is in a group and keeps
\* its key takes it from its position and appends it again, so that
\* afterwards it is the last element of ref_ids and of every column, and
\* the other members keep their relative order.
C30_OrderOfLastAddition == [][Reappended]_vars

\* C30 witness: an edit that kept the key moved a data point of a rate
\* group with three members from the front to the end, leaving ref_ids
\* unsorted.
C30_Witness ==
    /\ last.app = "G3" /\ last.op = "edit" /\ last.grouped /\ ~last.raised
    /\ \E i \in DOMAIN rate_dicts :
          /\ Len(rate_dicts[i].ref_ids) = 3
          /\ rate_dicts[i].ref_ids[3] = last.id
          /\ rate_dicts[i].ref_ids[1] > last.id
          /\ rate_dicts[i].ref_ids[2] > rate_dicts[i].ref_ids[1]

\* The groups of dicts whose ref_ids hold id.
Holding(dicts, id) == {i \in DOMAIN dicts : id \in Range(dicts[i].ref_ids)}

\* The data point id is, once, in one group of dicts, and that group has
\* the data point's key (eq).
InItsGroupOnce(dicts, id, eq(_)) ==
    /\ Cardinality(Holding(dicts, id)) = 1
    /\ \A i \in Holding(dicts, id) :
          /\ eq(dicts[i])
          /\ Cardinality({k \in DOMAIN dicts[i].ref_ids : dicts[i].ref_ids[k] = id}) = 1

G3Complete(proc_data) ==
    (proc_data.tau # None /\ proc_data.conversion # None)
        => InItsGroupOnce(rate_dicts, proc_data.id,
                          LAMBDA d : d.p = proc_data.p /\ d.T_reactor = proc_data.T_reactor)

G1Complete(proc_data) ==
    proc_data.rate # None
        => /\ InItsGroupOnce(g1_ea_dicts, proc_data.id,
                             LAMBDA d : /\ d.C_base = proc_data.C_base
                                        /\ d.C_ester = proc_data.C_ester)
           /\ InItsGroupOnce(ro_base_dicts, proc_data.id,
                             LAMBDA d : /\ d.T_reaction = proc_data.T_reaction
                                        /\ d.C_ester = proc_data.C_ester)
           /\ InItsGroupOnce(ro_ester_dicts, proc_data.id,
                             LAMBDA d : /\ d.T_reaction = proc_data.T_reaction
                                        /\ d.C_base = proc_data.C_base)

\* Every stored, active data point whose derivation yields its grouped
\* values is in the group with its key, once, in each first-level family.
ActiveGrouped ==
    /\ \A id \in G3Stored :
          g3data[id].is_active => G3Complete(G3_calc_proc_data(g3data[id].raw_data))
    /\ \A id \in G1Stored :
          (/\ g1data[id].is_active
           /\ ~G1_calc_raises(g1data[id].raw_data, g1data[id].file))
              => G1Complete(G1_calc_proc_data(g1data[id].raw_data, g1data[id].file))

\* No first-level group holds the id of a data point that is not stored.
NoDeletedMember ==
    /\ Members(rate_dicts) \subseteq G3Stored
    /\ Members(g1_ea_dicts) \cup Members(ro_base_dicts) \cup Members(ro_ester_dicts)
          \subseteq G1Stored

\* C31 (view completeness): after every event each stored data point that
\* is active and successfully derived is a member of exactly one group of
\* each first-level family (G3 rate; G1 Ea, RO-base, RO-ester), the group
\* whose key equals its key values, and no group of these families holds
\* the id of a deleted data point.
C31_ViewComplete == ActiveGrouped /\ NoDeletedMember

\* No two groups of dicts have the same key or the same id.
KeysUnique(dicts, key(_)) ==
    \A i, j \in DOMAIN dicts :
        i # j => key(dicts[i]) # key(dicts[j]) /\ dicts[i].id # dicts[j].id

\* Every group of old is a group of new, with its id and key.
KeysKept(old, new, key(_)) ==
    /\ Len(new) >= Len(old)
    /\ \A i \in DOMAIN old : new[i].id = old[i].id /\ key(new[i]) = key(old[i])

AllKeysUnique ==
    /\ KeysUnique(rate_dicts, LAMBDA d : <<d.p, d.T_reactor>>)
    /\ KeysUnique(ea_dicts, LAMBDA d : d.p)
    /\ KeysUnique(ro_dicts, LAMBDA d : d.T_reactor)
    /\ KeysUnique(g1_ea_dicts, LAMBDA d : <<d.C_base, d.C_ester>>)
    /\ KeysUnique(ro_base_dicts, LAMBDA d : <<d.T_reaction, d.C_ester>>)
    /\ KeysUnique(ro_ester_dicts, LAMBDA d : <<d.T_reaction, d.C_base>>)

AllKeysKept ==
    /\ KeysKept(rate_dicts, rate_dicts', LAMBDA d : <<d.p, d.T_reactor>>)
    /\ KeysKept(ea_dicts, ea_dicts', LAMBDA d : d.p)
    /\ KeysKept(ro_dicts, ro_dicts', LAMBDA d : d.T_reactor)
    /\ KeysKept(g1_ea_dicts, g1_ea_dicts', LAMBDA d : <<d.C_base, d.C_ester>>)
    /\ KeysKept(ro_base_dicts, ro_base_dicts', LAMBDA d : <<d.T_reaction, d.C_ester>>)
    /\ KeysKept(ro_ester_dicts, ro_ester_dicts', LAMBDA d : <<d.T_reaction, d.C_base>>)

\* C32 (keys are unique per family and immutable): after any sequence of
\* events no two groups of a family have equal key values, and no removal,
\* insertion or regression pass modifies the id or the key values of an
\* existing group.
C32_KeysUniqueImmutable == []AllKeysUnique /\ [][AllKeysKept]_vars

\* C32 witness: an edit moved a G1 data point to another temperature, so
\* that both reaction-order families gained a second group next to the
\* one the data point left, which still has a member.
C32_Witness ==
    /\ last.app = "G1" /\ last.op = "edit" /\ last.grouped /\ ~last.raised
    /\ Len(ro_ester_dicts) >= 2 /\ Len(ro_base_dicts) >= 2
    /\ ro_ester_dicts[Len(ro_ester_dicts)].ref_ids = <<last.id>>
    /\ ro_ester_dicts[1].ref_ids # <<>>

\* The entries of the column x of the group d are pairwise distinct, one
\* for each member.
DistinctEntries(d, x) ==
    /\ Len(x) = Len(d.ref_ids)
    /\ Unique(x) = Len(d.ref_ids)
    /\ Unique(d.ref_ids) = Len(d.ref_ids)

\* C33 (independent values of the G3 second level are pairwise distinct):
\* within an Ea group the T_reactor entries of its members are pairwise
\* distinct and within an RO group the p entries are, so the number of
\* distinct values the threshold looks at is the number of members.
C33_SecondLevelDistinct ==
    /\ \A i \in DOMAIN ea_dicts : DistinctEntries(ea_dicts[i], ea_dicts[i].T_reactor)
    /\ \A i \in DOMAIN ro_dicts : DistinctEntries(ro_dicts[i], ro_dicts[i].p)

\* C33 witness: after a G3 event an Ea group has two members at different
\* reactor temperatures, one of which was refitted by the event and joined
\* again.
C33_Witness ==
    /\ last.app = "G3" /\ last.grouped /\ last.op = "edit" /\ ~last.raised
    /\ \E i \in DOMAIN ea_dicts :
          /\ Len(ea_dicts[i].ref_ids) >= 2
          /\ \E j \in DOMAIN rate_dicts :
                /\ last.id \in Range(rate_dicts[j].ref_ids)
                /\ rate_dicts[j].id = ea_dicts[i].ref_ids[Len(ea_dicts[i].ref_ids)]

\* The members of the group d, each with its entries in the columns cols.
MemberRows(d, cols) ==
    {[f \in cols \cup {"ref_ids"} |-> d[f][k]] : k \in DOMAIN d.ref_ids}

\* The groups a and b have the same id, key, fit fields, plot series and
\* error, and the same members with the same column entries, in whatever
\* order.  The updated flag is not compared.
SameGroup(a, b, cols) ==
    /\ \A f \in DOMAIN a \ (cols \cup {"ref_ids", "updated", "is_simulated"}) :
          a[f] = b[f]
    /\ Len(a.ref_ids) = Len(b.ref_ids)
    /\ MemberRows(a, cols) = MemberRows(b, cols)

SameGroups(A, B, cols) ==
    /\ Len(A) = Len(B)
    /\ \A i \in DOMAIN A : SameGroup(A[i], B[i], cols)

\* The points of a pair of series <<x, y>>, or of the line fitted to them
\* (calc_slope keeps the line as the series it was fitted to): a
\* least-squares line does not depend on the order of its points.
SamePoints(u, v) ==
    IF u = None \/ v = None
    THEN u = v
    ELSE /\ Len(u[1]) = Len(v[1])
         /\ {<<u[1][i], u[2][i]>> : i \in DOMAIN u[1]}
               = {<<v[1][i], v[2][i]>> : i \in DOMAIN v[1]}

\* The fitted values u and v (a line with a unit, or a range with a line)
\* are the same.
SameFit(u, v, at) ==
    IF u = None \/ v = None
    THEN u = v
    ELSE /\ u[3 - at] = v[3 - at]
         /\ SamePoints(u[at], v[at])

\* The second-level G3 groups a and b are the same up to the order of
\* their members: fits lists the fields that hold a fitted line.
SameFitted(a, b, cols, fits) ==
    /\ \A f \in DOMAIN a \ (cols \cup fits \cup {"ref_ids", "updated", "is_simulated",
                                                  "plotdata", "fitdata"}) :
          a[f] = b[f]
    /\ \A f \in fits : SameFit(a[f], b[f], 1)
    /\ SamePoints(a.plotdata, b.plotdata)
    /\ SameFit(a.fitdata, b.fitdata, 2)
    /\ Len(a.ref_ids) = Len(b.ref_ids)
    /\ MemberRows(a, cols) = MemberRows(b, cols)

SameFittedGroups(A, B, cols, fits) ==
    /\ Len(A) = Len(B)
    /\ \A i \in DOMAIN A : SameFitted(A[i], B[i], cols, fits)

G3RunAgain(res) ==
    /\ ~res.raised
    /\ SameGroups(res.rate_dicts, rate_dicts,
                  {"tau", "conversion", "is_active", "is_simulated"})
    /\ SameFittedGroups(res.ea_dicts, ea_dicts, {"T_reactor", "rate"}, {"Ea", "A_app"})
    /\ SameFittedGroups(res.ro_dicts, ro_dicts, {"p", "rate"}, {"r_order"})

G1RunAgain(res) ==
    /\ SameGroups(res.g1_ea_dicts, g1_ea_dicts, {"T_reaction", "rate"})
    /\ SameGroups(res.ro_base_dicts, ro_base_dicts, {"C_base", "rate"})
    /\ SameGroups(res.ro_ester_dicts, ro_ester_dicts, {"C_ester", "rate"})

SimulMembers ==
    IF simul_dicts \in {None, EmptyList} THEN {} ELSE Range(simul_dicts.ref_ids)

\* The entries of the data point id in the columns of simul_dicts sd.
SimulRow(sd, id) == [k \in G3SimulKeys |-> sd[k][IndexOf(sd.ref_ids, id)]]

\* Every data point in simul_dicts stays in it with its column entries
\* unless the event is a save of a data point with its id.
SimulRowsStay ==
    \A id \in SimulMembers :
        ~(last'.app = "G3" /\ last'.op # "delete" /\ last'.id = id)
            => /\ simul_dicts' # None
               /\ id \in Range(simul_dicts'.ref_ids)
               /\ SimulRow(simul_dicts', id) = SimulRow(simul_dicts, id)

DeleteKeepsSimul ==
    (last'.app = "G3" /\ last'.op = "delete") => UNCHANGED <<simul_dicts, simul_params>>

SaveBounded ==
    /\ Len(call.stack) <= 2
    /\ call.saves <= 2
    /\ call.derivations <= 1
    /\ call.updates <= 2
    /\ Len(call.stack) = 2 => call.instance.is_processed

C35_SaveTerminates == []SaveBounded /\ ((call.stack # <<>>) ~> (call.stack = <<>>))

\* C35 witness: a save that derived, saved again, ran upd_g1results in both
\* handlers and returned.
C35_Witness ==
    /\ call.stack = <<>>
    /\ ~call.raised
    /\ call.saves = 2
    /\ call.derivations = 1
    /\ call.updates = 2

\* The entries (key, rate) a second-level group records for the rate dict r.
RecordedFor(d, r, column) ==
    {<<column[i], d.rate[i]>> : i \in {j \in DOMAIN d.ref_ids : d.ref_ids[j] = r.id}}

\* The rate dict r has been re-evaluated for membership in the groups dicts'
\* keyed by key: when it has a rate and no error it is, once and with its
\* rate as it is now, in the group with its key and in no other; otherwise
\* it is in none.
Reevaluated(dicts, r, key, column) ==
    \A k \in DOMAIN dicts :
        RecordedFor(dicts[k], r, dicts[k][column]) =
            IF r.rate # None /\ r.error = None /\ dicts[k][key] = r[key]
            THEN {<<r[column], r.rate>>}
            ELSE {}

\* upd_g3results seen from the rate dicts: regrouped is what upd_rate_dicts
\* leaves and refitted what upd_rates leaves, which upd_ea_dicts reads and
\* upd_ro_dicts reads and clears.
FlagConsumed(regrouped, refitted) ==
    /\ DOMAIN rate_dicts' = DOMAIN regrouped
    /\ \A i \in DOMAIN regrouped :
          /\ refitted[i].updated = regrouped[i].updated
          /\ rate_dicts'[i] = [refitted[i] EXCEPT !.updated = FALSE]
          /\ regrouped[i].updated = TRUE
                => /\ Reevaluated(ea_dicts', refitted[i], "p", "T_reactor")
                   /\ Reevaluated(ro_dicts', refitted[i], "T_reactor", "p")

\* The same, given what upd_rate_dicts leaves.
FlagConsumedFrom(regrouped) == FlagConsumed(regrouped, G3_upd_rates(regrouped))

G3EventDone == last'.app = "G3" /\ nevents' = nevents + 1 /\ ~last'.raised

\* C36 (the dirty flag of a rate group is consumed by both dependent
\* families before it is cleared): within one G3 event the updated flag of
\* a rate group is the same after the rate fit as before it, the Ea
\* membership update reads it set, and only the RO membership update
\* clears it: every rate group the event touched is stored with the flag
\* false and has been re-evaluated for membership in its Ea group and in
\* its RO group.
C36_FlagConsumedByBoth ==
    [][G3EventDone
         => FlagConsumedFrom(G3_upd_rate_dicts(last'.proc_data, rate_dicts,
                                               last'.op = "delete"))]_vars

\* C36 witness: an edit moved a data point between rate groups; both are
\* stored with the flag false, the group it joined is a member of an Ea
\* and of an RO group, and a rate group it is not in is a member too.
C36_Witness ==
    /\ last.app = "G3" /\ last.op = "edit" /\ ~last.raised /\ last.grouped
    /\ \A j \in DOMAIN rate_dicts : rate_dicts[j].updated = FALSE
    /\ \E j, k \in DOMAIN rate_dicts :
          /\ j # k
          /\ last.id \in Range(rate_dicts[j].ref_ids)
          /\ GroupsHolding(ea_dicts, rate_dicts[j]) # {}
          /\ GroupsHolding(ro_dicts, rate_dicts[j]) # {}
          /\ GroupsHolding(ea_dicts, rate_dicts[k]) # {}
====
